---------------------------- MODULE Spec2Model ----------------------------
(***************************************************************************)
(* A model of the asset generator (src/src/main.py): the spec parser, the  *)
(* configuration merge, the payload builders, the rate-limit aware HTTP    *)
(* dispatcher and the generation loop; and of the link fetcher             *)
(* (src/scripts/fetch_prompts.py), a separate program.                     *)
(*                                                                         *)
(* Representation.  A Python str is the sequence of its whitespace         *)
(* separated words (<<"gpt-5.2">>, <<"a", "road">>, <<>> for ""), so that  *)
(* " ".join and strip are computed and not assumed.  A configuration value *)
(* is a record [t, s]: t is the Python type ("str", "bool", "int") and s   *)
(* is str(value).  A file name is a record [stem, ext]; every name is a    *)
(* plain name inside the output directory.  A spec file is a sequence of   *)
(* lines, a line the sequence of its words (<<>> is a blank line).         *)
(***************************************************************************)
EXTENDS Integers, Sequences, FiniteSets, TLC

VARIABLES
    specfile,   \* the spec file: a sequence of lines
    env,        \* os.environ: a sequence of <<name, value>> in iteration order
    cfg_cli,    \* generate's cfg_cli argument
    limit,      \* generate's limit argument
    srv,        \* the scenario of the remote service (which responses it gives)
    fs,         \* the output directory: file name -> content, NoFile if absent
    now,        \* int(time.time())
    pc,         \* position of the invocation of generate
    preamble, assets, total_assets,  \* what parse_spec returned
    cfg, api_path, api_key,          \* the effective configuration of the run
    idx,        \* position of the for loop in assets (1-based)
    created,    \* generate's counter
    payload,    \* the payload of the call in progress
    wait,       \* wait_time of the sleep in progress
    exitcode,   \* -1 while running, then the process exit status
    exitmsg,    \* what sys.exit was given, "" if nothing
    report,     \* the end-of-run line: <<created, rem, total>>, <<>> if not printed
    calls,      \* history: the POST requests sent in this run, in order
    fetches,    \* history: number of image downloads (requests.get) in this run
    lastrsp,    \* history: the last response received by call_openai
    lasterr,    \* history: the error the last POST ended with, NoExc if none
    retries,    \* history: rate-limit retries of this run (bounded by MaxRetries)
    slept,      \* history: total seconds slept in this run
    dispatched, \* history: the asset indexes for which a payload was built
    failed,     \* history: the asset indexes whose dispatch or extraction failed
    wrote,      \* history: the files written in this run, as <<index, name>>
    before,     \* history: fs when this run began
    prior,      \* history: the asset indexes that failed in the previous run
    runs,       \* history: number of the current invocation (1-based)
    peer,       \* a second invocation of generate on the same inputs and directory
    argv,       \* the command line given to main, NoArgv when generate is called
    crawl       \* the link fetcher (scripts/fetch_prompts.py), idle if not run

vars == << specfile, env, cfg_cli, limit, srv, fs, now, pc, preamble, assets,
           total_assets, cfg, api_path, api_key, idx, created, payload, wait,
           exitcode, exitmsg, report, calls, fetches, lastrsp, lasterr, retries,
           slept, dispatched, failed, wrote, before, prior, runs, peer, argv,
           crawl >>

---------------------------------------------------------------------------
(* Bounds of the model. *)

MaxAssets == 2
MaxLimit == 2
MaxRetries == 2
BasicRetries == 1
MaxWait == 2
MaxRuns == 2
MaxLines == 3
MaxChain == 5

---------------------------------------------------------------------------
(* Strings. *)

Str(w) == [t |-> "str", s |-> << w >>]
PyBool(b) == [t |-> "bool", s |-> << IF b THEN "True" ELSE "False" >>]
PyInt(w) == [t |-> "int", s |-> << w >>]

\* str.lower() on one word (the words of the model that hold an upper-case letter)
LowerWord(w) ==
    CASE w = "PROMPT" -> "prompt"
      [] w = "Prompt" -> "prompt"
      [] w = "ASSET" -> "asset"
      [] w = "Asset" -> "asset"
      [] w = "MODEL" -> "model"
      [] w = "Model" -> "model"
      [] w = "SIZE" -> "size"
      [] w = "Size" -> "size"
      [] w = "N" -> "n"
      [] w = "QUALITY" -> "quality"
      [] w = "RESPONSE_FORMAT" -> "response_format"
      [] w = "OUTPUT_FORMAT" -> "output_format"
      [] w = "CONTINUE_ON_ERROR" -> "continue_on_error"
      [] w = "OPENAI_ORGANIZATION" -> "openai_organization"
      [] w = "OPENAI_PROJECT" -> "openai_project"
      [] w = "OPENAI_API_KEY" -> "openai_api_key"
      [] w = "OPENAI_API_PATH" -> "openai_api_path"
      [] w = "OPENAI_API_BASE" -> "openai_api_base"
      [] w = "UNKNOWNTAG" -> "unknowntag"
      [] w = "HOME" -> "home"
      [] w = "A" -> "a"
      [] w = "TRUE" -> "true"
      [] w = "True" -> "true"
      [] w = "False" -> "false"
      [] w = "None" -> "none"
      [] w = "Yes" -> "yes"
      [] w = "YES" -> "yes"
      [] w = "DALL-E-3" -> "dall-e-3"
      [] OTHER -> w

\* str.lower()
Lower(s) == [i \in 1..Len(s) |-> LowerWord(s[i])]

\* the words that match [A-Z_]+
CapsWords ==
    { "PROMPT", "ASSET", "MODEL", "SIZE", "N", "QUALITY", "RESPONSE_FORMAT",
      "OUTPUT_FORMAT", "CONTINUE_ON_ERROR", "OPENAI_ORGANIZATION",
      "OPENAI_PROJECT", "OPENAI_API_KEY", "OPENAI_API_PATH", "OPENAI_API_BASE",
      "UNKNOWNTAG", "HOME", "A", "TRUE", "YES" }

\* the rest of a line after its first k words: what (.+) captures, stripped
Rest(line, k) == SubSeq(line, k + 1, Len(line))

---------------------------------------------------------------------------
(* Constants & regexes. *)

ALLOWED_TAGS ==
    { "model", "background", "moderation", "n", "output_compression",
      "output_format", "quality", "response_format", "size", "style", "user",
      "openai_organization", "openai_project", "continue_on_error" }

\* ^\s*PROMPT\s+(.+)$ with re.IGNORECASE
PromptMatch(line) == Len(line) >= 2 /\ LowerWord(line[1]) = "prompt"

\* ^\s*ASSET\s+(\S+)\s+(.+)$ with re.IGNORECASE
AssetMatch(line) == Len(line) >= 3 /\ LowerWord(line[1]) = "asset"

\* a variant of ConfigMatch: only allow-listed keywords match
ConfigMatch_allowed(line) ==
    Len(line) >= 2 /\ line[1] \in CapsWords /\ LowerWord(line[1]) \in ALLOWED_TAGS

\* ^\s*([A-Z_]+)\s+(.+)$ (no re.IGNORECASE)
ConfigMatch(line) == Len(line) >= 2 /\ line[1] \in CapsWords

\* a file name of the model, from the word that names it in the spec file
FileOf(w) ==
    CASE w = "a.png" -> [stem |-> "a", ext |-> ".png"]
      [] w = "b.png" -> [stem |-> "b", ext |-> ".png"]
      [] w = "a.md" -> [stem |-> "a", ext |-> ".md"]
      [] w = "b.md" -> [stem |-> "b", ext |-> ".md"]
      [] OTHER -> [stem |-> w, ext |-> ""]

FileNames == { FileOf(w) : w \in { "a.png", "b.png", "a.md", "b.md" } }

---------------------------------------------------------------------------
(* parse_spec *)

EmptyCfg == [k \in {} |-> Str("")]

\* dict update: every key of g, and the keys of f that g does not have
Overlay(f, g) ==
    [k \in DOMAIN f \cup DOMAIN g |-> IF k \in DOMAIN g THEN g[k] ELSE f[k]]

\* config[key] = value
Put(f, k, v) == Overlay(f, [x \in {k} |-> v])

\* the body of the loop of parse_spec for line number lineno
ParseLine(acc, line, lineno) ==
    IF line = << >> THEN [status |-> "ok", acc |-> acc]
    ELSE IF PromptMatch(line) THEN
        [status |-> "ok",
         acc |-> [acc EXCEPT !.parts = Append(@, Rest(line, 1))]]
    ELSE IF AssetMatch(line) THEN
        [status |-> "ok",
         acc |-> [acc EXCEPT !.assets =
                    Append(@, [filename |-> FileOf(line[2]),
                               details |-> Rest(line, 2)])]]
    ELSE IF ConfigMatch(line) THEN
        IF LowerWord(line[1]) \in ALLOWED_TAGS THEN
            [status |-> "ok",
             acc |-> [acc EXCEPT !.config =
                        Put(@, LowerWord(line[1]),
                            [t |-> "str", s |-> Rest(line, 1)])]]
        ELSE [status |-> "exit", kind |-> "unknown keyword",
              lineno |-> lineno, key |-> line[1]]
    ELSE [status |-> "exit", kind |-> "malformed line",
          lineno |-> lineno, key |-> ""]

RECURSIVE ParseFrom(_, _, _)
ParseFrom(file, i, acc) ==
    IF i > Len(file) THEN [status |-> "ok", acc |-> acc]
    ELSE LET r == ParseLine(acc, file[i], i) IN
         IF r.status = "ok" THEN ParseFrom(file, i + 1, r.acc) ELSE r

RECURSIVE JoinParts_reversed(_)
\* a variant of JoinParts: the fragments are joined last to first
JoinParts_reversed(parts) ==
    IF parts = << >> THEN << >> ELSE JoinParts_reversed(Tail(parts)) \o Head(parts)

RECURSIVE JoinParts(_)
\* " ".join(global_parts).strip()
JoinParts(parts) ==
    IF parts = << >> THEN << >> ELSE Head(parts) \o JoinParts(Tail(parts))

parse_spec(file) ==
    LET r == ParseFrom(file, 1, [parts |-> << >>, assets |-> << >>, config |-> EmptyCfg]) IN
    IF r.status = "ok"
    THEN [status |-> "ok", preamble |-> JoinParts(r.acc.parts),
          assets |-> r.acc.assets, config |-> r.acc.config,
          total_assets |-> Len(r.acc.assets)]
    ELSE r

---------------------------------------------------------------------------
(* Configuration merge (generate, lines 462-504). *)

PyNone == [t |-> "none", s |-> << "None" >>]
EmptyStr == [t |-> "str", s |-> << >>]

\* str(x)
ToStr(v) == [t |-> "str", s |-> v.s]

\* bool(x)
Truthy(v) ==
    CASE v.t = "none" -> FALSE
      [] v.t = "bool" -> v.s = << "True" >>
      [] v.t = "int" -> v.s # << "0" >>
      [] OTHER -> v.s # << >>

\* dict.get(key, default)
Get(f, k, default) == IF k \in DOMAIN f THEN f[k] ELSE default

env_map ==
    [k \in { "OPENAI_ORGANIZATION", "OPENAI_PROJECT", "OPENAI_API_BASE",
             "OPENAI_API_PATH", "OPENAI_API_KEY", "CONTINUE_ON_ERROR" } |->
        CASE k = "OPENAI_ORGANIZATION" -> "openai_organization"
          [] k = "OPENAI_PROJECT" -> "openai_project"
          [] k = "OPENAI_API_BASE" -> "api_base"
          [] k = "OPENAI_API_PATH" -> "api_path"
          [] k = "OPENAI_API_KEY" -> "api_key"
          [] k = "CONTINUE_ON_ERROR" -> "continue_on_error"]

RECURSIVE EnvMapped(_, _)
\* {env_map[k]: v for k, v in os.environ.items() if k in env_map}
EnvMapped(e, acc) ==
    IF e = << >> THEN acc
    ELSE LET k == Head(e)[1]  v == Head(e)[2] IN
         EnvMapped(Tail(e), IF k \in DOMAIN env_map
                            THEN Put(acc, env_map[k], v) ELSE acc)

RECURSIVE EnvTags(_, _)
\* {k.lower(): v for k, v in os.environ.items() if k.lower() in ALLOWED_TAGS}
EnvTags(e, acc) ==
    IF e = << >> THEN acc
    ELSE LET k == Head(e)[1]  v == Head(e)[2] IN
         EnvTags(Tail(e), IF LowerWord(k) \in ALLOWED_TAGS
                          THEN Put(acc, LowerWord(k), v) ELSE acc)

env_cfg(e) == Overlay(EnvMapped(e, EmptyCfg), EnvTags(e, EmptyCfg))

RECURSIVE getenv(_, _, _)
\* os.getenv(name, default)
getenv(e, name, default) ==
    IF e = << >> THEN default
    ELSE IF Head(e)[1] = name THEN Head(e)[2]
    ELSE getenv(Tail(e), name, default)

\* a variant of MergeCfg: the environment is overlaid last
MergeCfg_envlast(cfg_file, e, cli) == Overlay(Overlay(cfg_file, cli), env_cfg(e))

\* cfg = {**cfg_file, **env_cfg, **cfg_cli}
MergeCfg(cfg_file, e, cli) == Overlay(Overlay(cfg_file, env_cfg(e)), cli)

\* a variant of images_api_models: one identifier is missing
images_api_models_short == { << "dall-e-2" >>, << "gpt-image-1" >> }

images_api_models == { << "dall-e-2" >>, << "dall-e-3" >>, << "gpt-image-1" >> }

_model_uses_responses_api(model) == model.s \notin images_api_models

\* model = str(cfg.get("model", "gpt-image-1")) in generate
ModelOf(c) == ToStr(Get(c, "model", Str("gpt-image-1")))

default_api_path(c) ==
    IF _model_uses_responses_api(ModelOf(c))
    THEN Str("/v1/responses") ELSE Str("/v1/images/generations")

\* a variant of ApiPath: the environment is consulted for every model
ApiPath_env(c, e, cli) ==
    IF "api_path" \in DOMAIN cli THEN ToStr(cli["api_path"])
    ELSE getenv(e, "OPENAI_API_PATH", default_api_path(c))

\* lines 496-501
ApiPath(c, e, cli) ==
    IF "api_path" \in DOMAIN cli THEN ToStr(cli["api_path"])
    ELSE IF _model_uses_responses_api(ModelOf(c)) THEN default_api_path(c)
    ELSE getenv(e, "OPENAI_API_PATH", default_api_path(c))

\* line 488
ApiBase(c, e) ==
    Get(c, "api_base", getenv(e, "OPENAI_API_BASE", Str("https://api.openai.com")))

\* a variant of ApiKey: the missing credential is turned into a string
ApiKey_str(c, e) == ToStr(Get(c, "api_key", getenv(e, "OPENAI_API_KEY", PyNone)))

\* line 502
ApiKey(c, e) == Get(c, "api_key", getenv(e, "OPENAI_API_KEY", PyNone))

---------------------------------------------------------------------------
(* Payload builders. *)

\* model.startswith("dall-e")
StartsWithDallE(m) ==
    Len(m.s) >= 1 /\ m.s[1] \in { "dall-e", "dall-e-2", "dall-e-3" }

\* model.startswith("gpt-image")
StartsWithGptImage(m) ==
    Len(m.s) >= 1 /\ m.s[1] \in { "gpt-image", "gpt-image-1" }

internal_params ==
    { "n", "response_format", "continue_on_error", "api_base", "api_path",
      "api_key", "openai_organization", "openai_project", "verbose" }

ext_map ==
    [x \in { ".png", ".webp", ".jpg", ".jpeg" } |->
        CASE x = ".png" -> "png" [] x = ".webp" -> "webp"
          [] x = ".jpg" -> "jpeg" [] x = ".jpeg" -> "jpeg"]

\* a variant of ForceB64: the flag is forced for dall-e-2 alone
ForceB64_dalle2(model, p) ==
    IF model.s = << "dall-e-2" >> THEN Put(p, "response_format", Str("b64_json"))
    ELSE p

\* lines 210-212: the forced base64 response flag
ForceB64(model, p) ==
    IF StartsWithDallE(model) THEN Put(p, "response_format", Str("b64_json"))
    ELSE p

\* a variant of CopyTags: a configured n is copied through as well
CopyTags_count(c, p) ==
    Overlay(p, [k \in (ALLOWED_TAGS \ (internal_params \ { "n" })) \cap DOMAIN c
                    |-> c[k]])

\* lines 225-227
CopyTags(c, p) ==
    Overlay(p, [k \in (ALLOWED_TAGS \ internal_params) \cap DOMAIN c |-> c[k]])

\* lines 229-233
InferFormat(model, filename, p) ==
    IF /\ StartsWithGptImage(model)
       /\ "output_format" \notin DOMAIN p
       /\ LowerWord(filename.ext) \in DOMAIN ext_map
    THEN Put(p, "output_format", Str(ext_map[LowerWord(filename.ext)]))
    ELSE p

build_images_payload(prompt, filename, c) ==
    LET base == [k \in { "prompt", "n", "model" } |->
                    CASE k = "prompt" -> [t |-> "str", s |-> prompt]
                      [] k = "n" -> PyInt("1")
                      [] k = "model" -> Str("gpt-image-1")]
        model == ToStr(Get(c, "model", Str("gpt-image-1")))
    IN  InferFormat(model, filename, CopyTags(c, ForceB64(model, base)))

\* lines 253-261: the tool object
ResponsesTool(c) ==
    LET copied == [k \in { "size", "quality", "background", "moderation" }
                       \cap DOMAIN c |-> c[k]]
        typed == Put(copied, "type", Str("image_generation"))
    IN  IF "output_format" \in DOMAIN c
        THEN Put(typed, "format", c["output_format"]) ELSE typed

build_responses_payload(prompt, c) ==
    [k \in { "model", "input", "tools" } |->
        CASE k = "model" -> ToStr(Get(c, "model", Str("gpt-5.2")))
          [] k = "input" -> [t |-> "str", s |-> prompt]
          [] k = "tools" -> [t |-> "list", s |-> << ResponsesTool(c) >>]]

\* lines 517-520
BuildPayload(prompt, filename, c) ==
    IF _model_uses_responses_api(ModelOf(c))
    THEN build_responses_payload(prompt, c)
    ELSE build_images_payload(prompt, filename, c)

IsImagesShape(p) == DOMAIN p # {} /\ "prompt" \in DOMAIN p
IsResponsesShape(p) == DOMAIN p # {} /\ "input" \in DOMAIN p

---------------------------------------------------------------------------
(* The remote service: what one POST can come back with. *)

NoField == [k |-> "absent", items |-> << >>]
NotList == [k |-> "notlist", items |-> << >>]
List(items) == [k |-> "list", items |-> items]

DataItem(b64, url) == [k |-> "obj", b64 |-> b64, url |-> url]
OutItem(type, result) == [k |-> "obj", type |-> type, result |-> result]

BodyInvalid == [json |-> "invalid", empty |-> TRUE, data |-> NoField, output |-> NoField]
BodyEmptyObj == [json |-> "object", empty |-> TRUE, data |-> NoField, output |-> NoField]
BodyError == [json |-> "object", empty |-> FALSE, data |-> NoField, output |-> NoField]
BodyObj(data, output) == [json |-> "object", empty |-> FALSE, data |-> data, output |-> output]

ImagesOk == BodyObj(List(<< DataItem("SU1H", "absent") >>), NoField)
ResponsesOk ==
    BodyObj(NoField, List(<< OutItem("message", "absent"),
                             OutItem("image_generation_call", "SU1HMg==") >>))

OkBodies ==
    { ImagesOk, ResponsesOk,
      BodyObj(List(<< DataItem("absent", "https://cdn/ok") >>), NoField),
      BodyObj(List(<< DataItem("absent", "https://cdn/down") >>), NoField),
      BodyObj(List(<< DataItem("SU1H", "https://cdn/down") >>), NoField),
      BodyObj(List(<< DataItem("bad", "absent") >>), NoField),
      BodyObj(List(<< DataItem("absent", "absent") >>), NoField),
      \* a first element of data that is not an object
      BodyObj(List(<< [k |-> "nonobj", b64 |-> "absent", url |-> "absent"],
                      DataItem("SU1H", "absent") >>), NoField),
      BodyObj(List(<< >>), List(<< OutItem("image_generation_call", "SU1HMg==") >>)),
      BodyObj(NoField, List(<< OutItem("image_generation_call", "blank"),
                               OutItem("image_generation_call", "SU1HMg==") >>)),
      \* an element of output that is not an object
      BodyObj(NoField, List(<< [k |-> "nonobj", type |-> "absent", result |-> "absent"],
                               OutItem("message", "absent") >>)),
      BodyObj(NotList, NotList),
      BodyEmptyObj, BodyInvalid,
      [json |-> "array", empty |-> FALSE, data |-> NoField, output |-> NoField] }

NoReset == [k |-> "absent", v |-> 0]
ResetAt(n) == [k |-> "int", v |-> n]

Response(status, ctype, remaining, reset, body) ==
    [kind |-> "response", status |-> status, ctype |-> ctype,
     remaining |-> remaining, reset |-> reset, body |-> body]

NetworkError ==
    [kind |-> "exception", status |-> 0, ctype |-> "", remaining |-> "absent",
     reset |-> NoReset, body |-> BodyInvalid]

NoResponse ==
    [kind |-> "none", status |-> 0, ctype |-> "", remaining |-> "absent",
     reset |-> NoReset, body |-> BodyInvalid]

\* rate-limit headers that do not make call_openai wait, at time t
SteadyHeaders(t) ==
    { << "absent", NoReset >>, << "7", ResetAt(t + 1) >>, << "0", NoReset >>,
      << "0", [k |-> "bad", v |-> 0] >>, << "0", ResetAt(t - 1) >>, << "0", ResetAt(t) >> }

\* rate-limit headers with no requests left and a reset in the future
WaitHeaders(t) == { << "0", ResetAt(t + w) >> : w \in 1..MaxWait }

\* a usual body for a status code
BodyFor(status) == IF status < 400 THEN ImagesOk ELSE BodyError

\* the responses of the service in scenario sc at time t; a response that makes
\* call_openai wait is given only while canRetry (RetryBound bounds the model)
Responses(sc, t, canRetry) ==
    IF sc = "basic" THEN
        { NetworkError,
          Response(200, "application/json", "absent", NoReset, ImagesOk),
          Response(200, "application/json", "7", ResetAt(t + 1), ResponsesOk),
          Response(200, "application/json", "0", ResetAt(t), ImagesOk),
          Response(200, "application/json", "absent", NoReset, BodyInvalid),
          Response(200, "application/json", "absent", NoReset, BodyEmptyObj),
          Response(500, "text/html", "absent", NoReset, BodyInvalid) }
        \cup IF canRetry
             THEN { Response(429, "application/json", "0", ResetAt(t + 1), BodyError) }
             ELSE {}
    ELSE IF sc = "good" THEN
        { Response(200, "application/json", "absent", NoReset, ImagesOk),
          Response(200, "application/json", "7", ResetAt(t + 1), ImagesOk) }
        \cup IF canRetry
             THEN { Response(429, "application/json", "0", ResetAt(t + 1), BodyError) }
             ELSE {}
    ELSE IF sc = "busy" THEN
        { NetworkError,
          Response(200, "application/json", "absent", NoReset, ImagesOk),
          Response(500, "text/html", "absent", NoReset, BodyInvalid) }
        \cup IF canRetry
             THEN { Response(st, "application/json", h[1], h[2], BodyFor(st)) :
                      st \in { 200, 429 }, h \in WaitHeaders(t) }
             ELSE {}
    ELSE
        { NetworkError }
        \cup { Response(st, "application/json", h[1], h[2], BodyFor(st)) :
                 st \in { 200, 304, 429, 500 },
                 h \in SteadyHeaders(t) \cup IF canRetry THEN WaitHeaders(t) ELSE {} }
        \cup { Response(st, "application/json", "absent", NoReset, b) :
                 st \in { 200, 304 }, b \in OkBodies }
        \cup { Response(st, ct, "absent", NoReset, b) :
                 st \in { 429, 500 }, ct \in { "application/json", "text/html" },
                 b \in { BodyError, BodyEmptyObj, BodyInvalid } }

---------------------------------------------------------------------------
(* call_openai *)

\* f"{api_base.rstrip('/')}/{api_path.lstrip('/')}"
StripSlashes(w) ==
    CASE w = "/v1/responses" -> "v1/responses"
      [] w = "/v1/images/generations" -> "v1/images/generations"
      [] w = "/custom" -> "custom"
      [] w = "/v1/images/edits" -> "v1/images/edits"
      [] w = "https://proxy.local/" -> "https://proxy.local"
      [] OTHER -> w

UrlOf(base, path) ==
    << [i \in 1..Len(base.s) |-> StripSlashes(base.s[i])],
       [i \in 1..Len(path.s) |-> StripSlashes(path.s[i])] >>

\* lines 294-303
HeadersOf(key, c) ==
    LET h0 == [k \in { "Content-Type", "Authorization" } |->
                  IF k = "Content-Type" THEN Str("application/json")
                  ELSE [t |-> "str", s |-> << "Bearer" >> \o key.s]]
        h1 == IF Truthy(Get(c, "openai_organization", PyNone))
              THEN Put(h0, "OpenAI-Organization", c["openai_organization"]) ELSE h0
    IN  IF Truthy(Get(c, "openai_project", PyNone))
        THEN Put(h1, "OpenAI-Project", c["openai_project"]) ELSE h1

\* requests.Response.ok: the status code is below 400
Ok(r) == r.status < 400

\* requests.Response.reason
Reason(status) ==
    CASE status = 200 -> "OK" [] status = 304 -> "Not Modified"
      [] status = 429 -> "Too Many Requests"
      [] status = 500 -> "Internal Server Error" [] OTHER -> ""

Raise(type, status, details) ==
    [k |-> "raise", wait |-> 0, data |-> BodyInvalid,
     exc |-> [type |-> type, status |-> status, reason |-> Reason(status),
              details |-> details]]

NoExc == [type |-> "", status |-> 0, reason |-> "", details |-> FALSE]

\* line 363: remaining_requests == '0' and reset_requests
RateLimitZero(r) == r.remaining = "0" /\ r.reset.k # "absent"

\* a variant of WaitTime: the current time is not subtracted
WaitTime_absolute(r, t) == IF r.reset.v - t > 0 THEN r.reset.v ELSE 0

\* line 365
WaitTime(r, t) == IF r.reset.v - t > 0 THEN r.reset.v - t ELSE 0

\* lines 371-382, once the rate-limit check has let the response through
AfterRateCheck(r) ==
    IF ~Ok(r) THEN
        IF r.ctype = "application/json" /\ r.body.json = "invalid"
        THEN Raise("RequestException", 0, FALSE)   \* r.json() raised: line 387
        ELSE Raise("HTTPError", r.status,
                   r.ctype = "application/json" /\ ~r.body.empty)
    ELSE IF r.body.json = "invalid" THEN Raise("RequestException", 0, FALSE)
    ELSE IF r.body.json # "object" THEN Raise("ValueError", 0, FALSE)
    ELSE [k |-> "return", wait |-> 0, data |-> r.body, exc |-> NoExc]

\* a variant of CallOutcome: the loop sleeps and continues for any wait time
CallOutcome_anywait(r, t) ==
    IF r.kind = "exception" THEN Raise("RequestException", 0, FALSE)
    ELSE IF RateLimitZero(r) THEN
        IF r.reset.k = "bad" THEN Raise("ValueError", 0, FALSE)
        ELSE [k |-> "sleep", wait |-> WaitTime(r, t), data |-> BodyInvalid,
              exc |-> NoExc]
    ELSE AfterRateCheck(r)

\* one turn of the while loop of call_openai: the response r arrives at time t
CallOutcome(r, t) ==
    IF r.kind = "exception" THEN Raise("RequestException", 0, FALSE)
    ELSE IF RateLimitZero(r) THEN
        IF r.reset.k = "bad" THEN Raise("ValueError", 0, FALSE)  \* int()
        ELSE IF WaitTime(r, t) > 0
        THEN [k |-> "sleep", wait |-> WaitTime(r, t), data |-> BodyInvalid,
              exc |-> NoExc]
        ELSE AfterRateCheck(r)
    ELSE AfterRateCheck(r)

---------------------------------------------------------------------------
(* response_image_bytes *)

Bytes(b) == [ok |-> TRUE, bytes |-> b, exc |-> "", fetched |-> FALSE]
NoBytes(exc, fetched) == [ok |-> FALSE, bytes |-> "", exc |-> exc, fetched |-> fetched]

\* base64.b64decode
b64decode(w) ==
    CASE w = "SU1H" -> Bytes("IMG")
      [] w = "SU1HMg==" -> Bytes("IMG2")
      [] OTHER -> NoBytes("ValueError", FALSE)

\* requests.get(url, timeout=120).content
UrlContent(u) ==
    IF u = "https://cdn/ok" THEN [Bytes("URLIMG") EXCEPT !.fetched = TRUE]
    ELSE NoBytes("RequestException", TRUE)

image_bytes(d) ==
    IF d.b64 # "absent" THEN b64decode(d.b64)
    ELSE IF d.url # "absent" THEN UrlContent(d.url)
    ELSE NoBytes("ValueError", FALSE)

RECURSIVE ScanOutput_lenient(_)
\* a variant of ScanOutput: an item without a usable result is passed over
ScanOutput_lenient(items) ==
    IF items = << >> THEN NoBytes("ValueError", FALSE)
    ELSE LET item == Head(items) IN
         IF \/ item.k # "obj" \/ item.type # "image_generation_call"
            \/ item.result \in { "absent", "blank", "nonstr" }
         THEN ScanOutput_lenient(Tail(items))
         ELSE b64decode(item.result)

RECURSIVE ScanOutput(_)
\* lines 424-432
ScanOutput(items) ==
    IF items = << >> THEN NoBytes("ValueError", FALSE)
    ELSE LET item == Head(items) IN
         IF item.k # "obj" \/ item.type # "image_generation_call"
         THEN ScanOutput(Tail(items))
         ELSE IF item.result \notin { "absent", "blank", "nonstr" }
         THEN b64decode(item.result)
         ELSE NoBytes("ValueError", FALSE)

response_image_bytes(rsp) ==
    IF rsp.data.k = "list" /\ rsp.data.items # << >> THEN
        IF rsp.data.items[1].k = "obj" THEN image_bytes(rsp.data.items[1])
        ELSE NoBytes("TypeError", FALSE)
    ELSE IF rsp.output.k = "list" THEN ScanOutput(rsp.output.items)
    ELSE NoBytes("ValueError", FALSE)

---------------------------------------------------------------------------
(* The output directory. *)

NoFile == [kind |-> "absent", data |-> << >>]
OldFile == [kind |-> "old", data |-> << >>]

\* a variant of Exists: the companion file is tested in place of the image file
Exists_companion(dir, f) == dir[[stem |-> f.stem, ext |-> ".md"]].kind # "absent"

\* a variant of Exists: no file is ever found
Exists_never(dir, f) == FALSE

\* Path.exists()
Exists(dir, f) == dir[f].kind # "absent"

\* a variant of with_suffix_md: the suffix is not replaced
with_suffix_md_kept(f) == f

\* dest.with_suffix(".md")
with_suffix_md(f) == [stem |-> f.stem, ext |-> ".md"]

\* a variant of WriteBytes: the image file is not created
WriteBytes_lost(dir, f, b) == dir

\* dest.write_bytes(img)
WriteBytes(dir, f, b) == [dir EXCEPT ![f] = [kind |-> "bytes", data |-> << b >>]]

\* dest.with_suffix(".md").write_text(...): the file name and the prompt
WriteText(dir, f, name, prompt) ==
    [dir EXCEPT ![f] = [kind |-> "text", data |-> << name.stem, name.ext >> \o prompt]]

\* a variant of Missing: the missing file names, not the entries, are counted
Missing_names(dir, as) ==
    { as[i].filename : i \in { k \in 1..Len(as) : ~Exists(dir, as[k].filename) } }

\* sum(1 for f, _ in assets if not (outdir / f).exists())
Missing(dir, as) == { i \in 1..Len(as) : ~Exists(dir, as[i].filename) }

---------------------------------------------------------------------------
(* generate *)

NoMsg == [kind |-> "", lineno |-> 0, key |-> ""]
NoKeyMsg == [kind |-> "OPENAI_API_KEY (or --api-key) not provided.", lineno |-> 0, key |-> ""]

\* f"{preamble} {details}".strip()
PromptOf(pre, details) == pre \o details

\* a variant of ShouldContinue: the truth value of the setting is taken
ShouldContinue_truthy(c) == Truthy(Get(c, "continue_on_error", PyNone))

\* lines 535-539
ShouldContinue(c) ==
    LET v == Get(c, "continue_on_error", PyNone) IN
    IF v.t = "bool" THEN v.s = << "True" >>
    ELSE Lower(ToStr(v).s) \in { << "true" >>, << "1" >>, << "yes" >> }

\* a variant of LimitReached: the comparison is strict
LimitReached_strict(n, lim) == n > lim

\* line 510: the guard of the break
LimitReached(n, lim) == n >= lim

Request(i, c, e, path, key, p) ==
    [idx |-> i, url |-> UrlOf(ApiBase(c, e), path), headers |-> HeadersOf(key, c),
     payload |-> p]

\* the second invocation before it starts
IdlePeer ==
    [pc |-> "idle", idx |-> 1, created |-> 0, dispatched |-> {}, failed |-> {},
     wrote |-> {}]

inputs == << specfile, env, cfg_cli, limit, srv, argv, crawl >>
parsed == << preamble, assets, total_assets, cfg, api_path, api_key >>
history == << calls, fetches, lastrsp, lasterr, retries, slept, dispatched, failed,
             wrote >>

\* lines 449-507: parse the spec, merge the configuration, resolve the credential
Begin ==
    /\ pc = "begin"
    /\ LET p == parse_spec(specfile) IN
       IF p.status # "ok" THEN
           /\ pc' = "exit"
           /\ exitcode' = 1
           /\ exitmsg' = [kind |-> p.kind, lineno |-> p.lineno, key |-> p.key]
           /\ UNCHANGED << parsed, created, idx >>
       ELSE LET c == MergeCfg(p.config, env, cfg_cli)
                key == ApiKey(c, env)
            IN  /\ preamble' = p.preamble
                /\ assets' = p.assets
                /\ total_assets' = p.total_assets
                /\ cfg' = c
                /\ api_path' = ApiPath(c, env, cfg_cli)
                /\ api_key' = key
                /\ IF ~Truthy(key)
                   THEN /\ pc' = "exit"
                        /\ exitcode' = 1
                        /\ exitmsg' = NoKeyMsg
                        /\ UNCHANGED << created, idx >>
                   ELSE /\ pc' = "loop"
                        /\ created' = 0
                        /\ idx' = 1
                        /\ UNCHANGED << exitcode, exitmsg >>
    /\ UNCHANGED << inputs, fs, now, payload, wait, report, history, before, prior, runs >>
    /\ UNCHANGED peer

\* lines 509-511 and 543-544: the loop is over (exhausted, or the break at the
\* limit); the report is printed
LoopEnd ==
    /\ pc = "loop"
    /\ idx > Len(assets) \/ LimitReached(created, limit)
    /\ report' = << created, Cardinality(Missing(fs, assets)), total_assets >>
    /\ exitcode' = 0
    /\ pc' = "done"
    /\ UNCHANGED << inputs, fs, now, parsed, idx, created, payload, wait, exitmsg,
                    history, before, prior, runs >>
    /\ UNCHANGED peer

\* lines 512-514: the file exists, continue
LoopSkip ==
    /\ pc = "loop"
    /\ idx <= Len(assets) /\ ~LimitReached(created, limit)
    /\ Exists(fs, assets[idx].filename)
    /\ idx' = idx + 1
    /\ UNCHANGED << inputs, fs, now, pc, parsed, created, payload, wait, exitcode,
                    exitmsg, report, history, before, prior, runs >>
    /\ UNCHANGED peer

\* lines 515-520: build the prompt and the payload, enter call_openai
LoopBuild ==
    /\ pc = "loop"
    /\ idx <= Len(assets) /\ ~LimitReached(created, limit)
    /\ ~Exists(fs, assets[idx].filename)
    /\ payload' = BuildPayload(PromptOf(preamble, assets[idx].details),
                               assets[idx].filename, cfg)
    /\ dispatched' = dispatched \cup { idx }
    /\ pc' = "post"
    /\ UNCHANGED << inputs, fs, now, parsed, idx, created, wait, exitcode, exitmsg,
                    report, calls, fetches, lastrsp, lasterr, retries, slept, failed,
                    wrote, before, prior, runs >>
    /\ UNCHANGED peer

\* a variant of Fail: the failed asset is counted as created
Fail_counted ==
    /\ failed' = failed \cup { idx }
    /\ created' = created + 1
    /\ IF ShouldContinue(cfg)
       THEN /\ idx' = idx + 1
            /\ pc' = "loop"
            /\ UNCHANGED exitcode
       ELSE /\ pc' = "exit"
            /\ exitcode' = 1
            /\ UNCHANGED idx
    /\ UNCHANGED << fs, wrote, wait, retries >>

\* lines 532-541: the except clause of generate
Fail ==
    /\ failed' = failed \cup { idx }
    /\ IF ShouldContinue(cfg)
       THEN /\ idx' = idx + 1
            /\ pc' = "loop"
            /\ UNCHANGED exitcode
       ELSE /\ pc' = "exit"
            /\ exitcode' = 1
            /\ UNCHANGED idx
    /\ UNCHANGED << fs, created, wrote, wait, retries >>

\* lines 523-531: write the image and its companion file
Store(img) ==
    LET dest == assets[idx].filename
        md == with_suffix_md(dest)
    IN  /\ fs' = WriteText(WriteBytes(fs, dest, img), md, dest,
                           PromptOf(preamble, assets[idx].details))
        /\ wrote' = wrote \cup { << idx, dest >>, << idx, md >> }
        /\ created' = created + 1
        /\ idx' = idx + 1
        /\ pc' = "loop"
        /\ UNCHANGED << failed, exitcode, wait, retries >>

\* a variant of PostWith: the call gives up at the second rate-limited response
PostWith_ceiling(r) ==
    LET o == CallOutcome(r, now)
        img == response_image_bytes(o.data)
    IN  /\ calls' = Append(calls, Request(idx, cfg, env, api_path, api_key, payload))
        /\ lastrsp' = r
        /\ lasterr' = IF o.k = "raise" THEN o.exc
                      ELSE IF o.k = "sleep" /\ retries >= 1
                      THEN [NoExc EXCEPT !.type = "RequestException"]
                      ELSE IF o.k = "return" /\ ~img.ok
                      THEN [NoExc EXCEPT !.type = img.exc]
                      ELSE NoExc
        /\ IF o.k = "sleep" /\ retries = 0 THEN
               /\ pc' = "sleep"
               /\ wait' = o.wait
               /\ retries' = retries + 1
               /\ UNCHANGED << fs, created, idx, failed, wrote, exitcode, fetches >>
           ELSE IF o.k \in { "raise", "sleep" } THEN Fail /\ UNCHANGED fetches
           ELSE /\ fetches' = fetches + (IF img.fetched THEN 1 ELSE 0)
                /\ IF img.ok THEN Store(img.bytes) ELSE Fail

\* lines 322-387 and 522: one POST, its response r, and what generate does
\* with the outcome
PostWith(r) ==
    LET o == CallOutcome(r, now)
        img == response_image_bytes(o.data)
    IN  /\ calls' = Append(calls, Request(idx, cfg, env, api_path, api_key, payload))
        /\ lastrsp' = r
        /\ lasterr' = IF o.k = "raise" THEN o.exc
                      ELSE IF o.k = "return" /\ ~img.ok
                      THEN [NoExc EXCEPT !.type = img.exc]
                      ELSE NoExc
        /\ IF o.k = "sleep" THEN
               /\ pc' = "sleep"
               /\ wait' = o.wait
               /\ retries' = retries + 1
               /\ UNCHANGED << fs, created, idx, failed, wrote, exitcode, fetches >>
           ELSE IF o.k = "raise" THEN Fail /\ UNCHANGED fetches
           ELSE /\ fetches' = fetches + (IF img.fetched THEN 1 ELSE 0)
                /\ IF img.ok THEN Store(img.bytes) ELSE Fail

\* how many times the service of scenario sc makes one run wait
RetryBound(sc) == IF sc = "basic" THEN BasicRetries ELSE MaxRetries

Post ==
    /\ pc = "post"
    /\ \E r \in Responses(srv, now, retries < RetryBound(srv)) : PostWith(r)
    /\ UNCHANGED << inputs, now, parsed, payload, exitmsg, report, slept,
                    dispatched, before, prior, runs >>
    /\ UNCHANGED peer

\* line 368: time.sleep(wait_time), then continue
Sleep ==
    /\ pc = "sleep"
    /\ now' = now + wait
    /\ slept' = slept + wait
    /\ wait' = 0
    /\ pc' = "post"
    /\ UNCHANGED << inputs, fs, parsed, idx, created, payload, exitcode, exitmsg,
                    report, calls, fetches, lastrsp, lasterr, retries, dispatched,
                    failed, wrote, before, prior, runs >>
    /\ UNCHANGED peer

\* the program is run again on the same inputs and the same output directory
Rerun ==
    /\ pc \in { "done", "exit" }
    /\ runs < MaxRuns
    /\ runs' = runs + 1
    /\ before' = fs
    /\ prior' = failed
    /\ pc' = "begin"
    /\ preamble' = << >> /\ assets' = << >> /\ total_assets' = 0
    /\ cfg' = EmptyCfg /\ api_path' = EmptyStr /\ api_key' = PyNone
    /\ idx' = 1 /\ created' = 0 /\ payload' = EmptyCfg /\ wait' = 0
    /\ exitcode' = -1 /\ exitmsg' = NoMsg /\ report' = << >>
    /\ calls' = << >> /\ fetches' = 0 /\ lastrsp' = NoResponse /\ lasterr' = NoExc
    /\ retries' = 0
    /\ slept' = 0 /\ dispatched' = {} /\ failed' = {} /\ wrote' = {}
    /\ UNCHANGED << inputs, fs, now >>
    /\ UNCHANGED peer

Next == Begin \/ LoopEnd \/ LoopSkip \/ LoopBuild \/ Post \/ Sleep \/ Rerun

---------------------------------------------------------------------------
(* A second invocation of generate, started on the same spec file and the same
   output directory while the first is running. Its position and its counters
   are the fields of peer; it reads the same parsed spec and configuration. *)

\* lines 456-507 for the second invocation: same inputs, same parse result
PeerBegin ==
    /\ peer.pc = "idle"
    /\ pc \notin { "begin" } /\ exitmsg = NoMsg
    /\ peer' = [peer EXCEPT !.pc = "loop"]
    /\ UNCHANGED << inputs, fs, now, pc, parsed, idx, created, payload, wait,
                    exitcode, exitmsg, report, history, before, prior, runs >>

\* lines 509-511 and 543-544
PeerLoopEnd ==
    /\ peer.pc = "loop"
    /\ peer.idx > Len(assets) \/ LimitReached(peer.created, limit)
    /\ peer' = [peer EXCEPT !.pc = "done"]
    /\ UNCHANGED << inputs, fs, now, pc, parsed, idx, created, payload, wait,
                    exitcode, exitmsg, report, history, before, prior, runs >>

\* lines 512-514
PeerLoopSkip ==
    /\ peer.pc = "loop"
    /\ peer.idx <= Len(assets) /\ ~LimitReached(peer.created, limit)
    /\ Exists(fs, assets[peer.idx].filename)
    /\ peer' = [peer EXCEPT !.idx = @ + 1]
    /\ UNCHANGED << inputs, fs, now, pc, parsed, idx, created, payload, wait,
                    exitcode, exitmsg, report, history, before, prior, runs >>

\* lines 515-520
PeerLoopBuild ==
    /\ peer.pc = "loop"
    /\ peer.idx <= Len(assets) /\ ~LimitReached(peer.created, limit)
    /\ ~Exists(fs, assets[peer.idx].filename)
    /\ peer' = [peer EXCEPT !.pc = "post", !.dispatched = @ \cup { peer.idx }]
    /\ UNCHANGED << inputs, fs, now, pc, parsed, idx, created, payload, wait,
                    exitcode, exitmsg, report, history, before, prior, runs >>

\* lines 521-541: the request of the second invocation is answered with r (the
\* service does not make it wait); the image is written, or the asset fails
PeerPostWith(r) ==
    LET o == CallOutcome(r, now)
        img == response_image_bytes(o.data)
        dest == assets[peer.idx].filename
        md == with_suffix_md(dest)
    IN  /\ o.k # "sleep"
        /\ IF o.k = "return" /\ img.ok
           THEN /\ fs' = WriteText(WriteBytes(fs, dest, img.bytes), md, dest,
                                  PromptOf(preamble, assets[peer.idx].details))
                /\ peer' = [peer EXCEPT !.pc = "loop", !.idx = @ + 1,
                                        !.created = @ + 1,
                                        !.wrote = @ \cup { << peer.idx, dest >>,
                                                           << peer.idx, md >> }]
           ELSE /\ fs' = fs
                /\ peer' = [peer EXCEPT
                              !.pc = IF ShouldContinue(cfg) THEN "loop" ELSE "exit",
                              !.idx = IF ShouldContinue(cfg) THEN @ + 1 ELSE @,
                              !.failed = @ \cup { peer.idx }]

PeerPost ==
    /\ peer.pc = "post"
    /\ \E r \in Responses(srv, now, FALSE) : PeerPostWith(r)
    /\ UNCHANGED << inputs, now, pc, parsed, idx, created, payload, wait,
                    exitcode, exitmsg, report, history, before, prior, runs >>

\* two invocations of generate running at the same time
NextPair ==
    \/ Begin \/ LoopEnd \/ LoopSkip \/ LoopBuild \/ Post \/ Sleep
    \/ PeerBegin \/ PeerLoopEnd \/ PeerLoopSkip \/ PeerLoopBuild \/ PeerPost

---------------------------------------------------------------------------
(* parse_cli and main *)

NoArgv == [given |-> FALSE, opts |-> EmptyCfg]


\* the namespace argparse gives when no option is on the command line: the
\* store_true flags are False, count is 1, every other option is None
NamespaceDefaults ==
    [k \in { "count", "continue_on_error", "verbose", "background", "model",
             "moderation", "output_compression", "output_format", "quality",
             "size", "style", "api_base", "api_path", "api_key" } |->
        CASE k = "count" -> PyInt("1")
          [] k \in { "continue_on_error", "verbose" } -> PyBool(FALSE)
          [] OTHER -> PyNone]

\* ap.parse_args(argv)
NamespaceOf(opts) == Overlay(NamespaceDefaults, opts)

\* int of a count given on the command line
CountOf(ns) ==
    CASE ns["count"].s = << "0" >> -> 0
      [] ns["count"].s = << "1" >> -> 1
      [] ns["count"].s = << "2" >> -> 2
      [] OTHER -> 3

\* line 609: the options that are not None and are allow-listed
CliCfg(ns) ==
    [k \in { x \in DOMAIN ns :
                /\ ns[x] # PyNone
                /\ x \in ALLOWED_TAGS \cup { "api_base", "api_path", "api_key" } }
        |-> ns[k]]

\* parse_cli: the namespace and the filtered configuration
parse_cli(opts) ==
    LET ns == NamespaceOf(opts) IN [ns |-> ns, cli_cfg |-> CliCfg(ns)]

---------------------------------------------------------------------------
(* The link fetcher, scripts/fetch_prompts.py.  A URL is the record of what *)
(* urlparse finds in it (scheme, netloc), a number naming its path and its  *)
(* extension; a string without scheme ("www.x.com", a local path) has an    *)
(* empty scheme and netloc.                                                 *)

\* line 27
MAX_RECURSION_DEPTH == 5

Url(n, p, e) == [scheme |-> "http", netloc |-> n, path |-> p, ext |-> e]
Bare(p, e) == [scheme |-> "", netloc |-> "", path |-> p, ext |-> e]

\* the pages of the chain, http://a/<i>.md
P(i) == Url("a", i, ".md")
\* http://a/10 and http://a/10.md
X == Url("a", 10, "")
Xmd == Url("a", 10, ".md")
\* http://b/0.md, on another domain
Y == Url("b", 0, ".md")
\* a local file, 12.txt
F == Bare(12, ".txt")

\* lines 33-43
is_valid_url(u) == u.scheme # "" /\ u.netloc # ""

\* lines 45-61
convert_to_markdown_url(u) ==
    IF u.ext = ".html" THEN [u EXCEPT !.ext = ".md"]
    ELSE IF u.ext \notin { ".html", ".md", ".txt", ".json", ".xml", ".yaml", ".yml" }
         THEN [u EXCEPT !.ext = ".md"]
         ELSE u

\* what a request or a read gives: nothing (the request fails, the file does
\* not exist), an empty text, a text or an HTML document; links is what
\* URL_PATTERN.findall finds in it, in order
NoPage == [kind |-> "none", links |-> << >>]
Text(ls) == [kind |-> "text", links |-> ls]
Html(ls) == [kind |-> "html", links |-> ls]

\* the webs of the model: what is behind each URL
Page(w, u) ==
    IF w.kind = "chain" THEN
        \* P(0) links to P(1), ..., P(n - 1) to P(n)
        IF u.netloc = "a" /\ u.ext = ".md" /\ u.path < w.n THEN Text(<< P(u.path + 1) >>)
        ELSE IF u = P(w.n) THEN Text(<< >>)
        ELSE NoPage
    ELSE IF w.kind = "loop" THEN
        IF u = P(0) THEN Text(<< P(1), P(0) >>)
        ELSE IF u = P(1) THEN Text(<< P(0), P(1), P(2) >>)
        ELSE IF u = P(2) THEN Html(<< P(3) >>)
        ELSE IF u = Y THEN Text(<< P(0) >>)
        ELSE NoPage
    ELSE IF w.kind = "variants" THEN
        \* Bare(11, "") is <www.11>: matched by URL_PATTERN, no scheme
        IF u = P(0) THEN Text(<< X, Xmd, Y, Bare(11, "") >>)
        ELSE IF u = P(1) THEN Text(<< Xmd, X >>)
        ELSE IF u = Xmd THEN Text(<< >>)
        ELSE IF u = X THEN Html(<< P(1) >>)
        ELSE IF u = Y THEN Text(<< P(1) >>)
        ELSE IF u = F THEN Text(<< P(0), X >>)
        ELSE NoPage
    ELSE \* "broken"
        IF u = P(0) THEN Text(<< P(1), P(2) >>)
        ELSE IF u = P(1) THEN Text(<< P(3) >>)
        ELSE IF u = P(2) THEN [kind |-> "empty", links |-> << >>]
        ELSE IF u = X THEN Html(<< >>)
        ELSE NoPage

\* a content and what process_content will find in it: truthy is bool(content)
NoContent == [truthy |-> FALSE, links |-> << >>]
Content(pg) == [truthy |-> pg.kind # "empty", links |-> pg.links]

\* lines 69-137: fetch_content(url_or_path, is_whitelisted) on web w; gets are
\* the requests sent, exit is sys.exit(1).  ' '.join(re.findall(r'>([^<]+)<',
\* content)) leaves no "<", so no URL, in the text of an HTML document
fetch_content(w, u, is_whitelisted) ==
    LET md == convert_to_markdown_url(u) IN
    IF is_valid_url(u) THEN
        IF md # u /\ Page(w, md).kind # "none"
        THEN [content |-> Content(Page(w, md)), is_html |-> FALSE,
              gets |-> << md >>, exit |-> FALSE]
        ELSE LET tried == IF md # u THEN << md, u >> ELSE << u >>
                 pg == Page(w, u) IN
             IF pg.kind = "none"
             THEN [content |-> NoContent, is_html |-> FALSE, gets |-> tried,
                   exit |-> is_whitelisted]
             ELSE IF pg.kind = "html"
             THEN [content |-> [Content(pg) EXCEPT !.links = << >>], is_html |-> TRUE,
                   gets |-> tried, exit |-> FALSE]
             ELSE [content |-> Content(pg), is_html |-> FALSE, gets |-> tried,
                   exit |-> FALSE]
    ELSE
        LET pg == Page(w, u) IN
        IF pg.kind = "none"
        THEN [content |-> NoContent, is_html |-> FALSE, gets |-> << >>,
              exit |-> is_whitelisted]
        ELSE [content |-> Content(pg), is_html |-> pg.kind = "html",
              gets |-> << >>, exit |-> FALSE]

\* lines 139-169; whitelist is the set of the listed URLs, {} for None and []
is_url_allowed(u, whitelist, source_url) ==
    IF ~is_valid_url(u) THEN FALSE
    ELSE IF u = source_url THEN TRUE
    ELSE IF whitelist = {} THEN source_url.netloc = u.netloc
    ELSE u \in whitelist

\* lines 262-272: main with the given sources and whitelist; the status is
\* "idle" when the fetcher is not run
CrawlOf(status, w, srcs, wl) ==
    [status |-> status, web |-> w, sources |-> srcs, whitelist |-> wl,
     stack |-> << >>, processed_urls |-> {}, gets |-> << >>, rejected |-> {}]

\* the call of process_content in progress, and the URL its loop is at
Top == crawl.stack[Len(crawl.stack)]
Callers == SubSeq(crawl.stack, 1, Len(crawl.stack) - 1)
Looping ==
    /\ crawl.status = "run" /\ crawl.stack # << >>
    /\ Top.depth < MAX_RECURSION_DEPTH
    /\ Top.urls # << >>

\* what the fetcher leaves alone
generator == << specfile, env, cfg_cli, limit, srv, argv, fs, now, pc, preamble,
                assets, total_assets, cfg, api_path, api_key, idx, created,
                payload, wait, exitcode, exitmsg, report, calls, fetches,
                lastrsp, lasterr, retries, slept, dispatched, failed, wrote,
                before, prior, runs, peer >>

\* what process_content is called with after a fetch
Frame(r, depth, source_url) ==
    [urls |-> IF r.is_html THEN << >> ELSE r.content.links,
     depth |-> depth, source_url |-> source_url]

\* lines 219-239, one iteration of main's loop (274-275): the source is
\* fetched as whitelisted and process_content is called at depth 0
process_source ==
    /\ crawl.status = "run" /\ crawl.stack = << >> /\ crawl.sources # << >>
    /\ LET src == Head(crawl.sources)
           r == fetch_content(crawl.web, src, TRUE) IN
       crawl' =
           IF r.exit \/ ~r.content.truthy
           THEN [crawl EXCEPT !.status = "exit1", !.gets = @ \o r.gets]
           ELSE [crawl EXCEPT !.sources = Tail(@), !.gets = @ \o r.gets,
                              !.stack = << Frame(r, 0, src) >>]
    /\ UNCHANGED generator

\* lines 175-177
DepthReached ==
    /\ crawl.status = "run" /\ crawl.stack # << >>
    /\ Top.depth >= MAX_RECURSION_DEPTH
    /\ crawl' = [crawl EXCEPT !.status = "exit1"]
    /\ UNCHANGED generator

\* lines 184-186
SkipProcessed ==
    /\ Looping
    /\ Head(Top.urls) \in crawl.processed_urls
    /\ crawl' = [crawl EXCEPT !.stack = Callers \o << [Top EXCEPT !.urls = Tail(@)] >>]
    /\ UNCHANGED generator

\* lines 189-192
SkipRejected ==
    /\ Looping
    /\ Head(Top.urls) \notin crawl.processed_urls
    /\ ~is_url_allowed(Head(Top.urls), crawl.whitelist, Top.source_url)
    /\ crawl' = [crawl EXCEPT !.stack = Callers \o << [Top EXCEPT !.urls = Tail(@)] >>,
                              !.rejected = @ \cup { Head(Top.urls) }]
    /\ UNCHANGED generator

\* lines 194-215: the URL is recorded and fetched, and its content processed
\* one level deeper
Visit ==
    /\ Looping
    /\ Head(Top.urls) \notin crawl.processed_urls
    /\ is_url_allowed(Head(Top.urls), crawl.whitelist, Top.source_url)
    /\ LET u == Head(Top.urls)
           r == fetch_content(crawl.web, u, TRUE) IN
       crawl' =
           IF r.exit \/ ~r.content.truthy
           THEN [crawl EXCEPT !.status = "exit1", !.gets = @ \o r.gets,
                              !.processed_urls = @ \cup { u }]
           ELSE [crawl EXCEPT !.gets = @ \o r.gets,
                              !.processed_urls = @ \cup { u },
                              !.stack = Callers \o << [Top EXCEPT !.urls = Tail(@)],
                                                   Frame(r, Top.depth + 1,
                                                         Top.source_url) >>]
    /\ UNCHANGED generator

\* line 217 (and 241-252 for the outermost call)
Return ==
    /\ crawl.status = "run" /\ crawl.stack # << >>
    /\ Top.depth < MAX_RECURSION_DEPTH
    /\ Top.urls = << >>
    /\ crawl' = [crawl EXCEPT !.stack = Callers]
    /\ UNCHANGED generator

\* lines 171-217
process_content == DepthReached \/ SkipProcessed \/ SkipRejected \/ Visit \/ Return

\* line 277: every source is processed, main returns
Complete ==
    /\ crawl.status = "run" /\ crawl.stack = << >> /\ crawl.sources = << >>
    /\ crawl' = [crawl EXCEPT !.status = "exit0"]
    /\ UNCHANGED generator

\* lines 262-277: main
NextCrawl == process_source \/ process_content \/ Complete

---------------------------------------------------------------------------
(* Initial states. *)

\* the state of a fresh process, for given inputs and output directory
StartedWith(file, e, cli, lim, sc, dir, c) ==
    /\ specfile = file /\ env = e /\ cfg_cli = cli /\ limit = lim /\ srv = sc
    /\ fs = dir /\ before = dir /\ prior = {}
    /\ now = 100
    /\ pc = "begin"
    /\ preamble = << >> /\ assets = << >> /\ total_assets = 0
    /\ cfg = EmptyCfg /\ api_path = EmptyStr /\ api_key = PyNone
    /\ idx = 1 /\ created = 0 /\ payload = EmptyCfg /\ wait = 0
    /\ exitcode = -1 /\ exitmsg = NoMsg /\ report = << >>
    /\ calls = << >> /\ fetches = 0 /\ lastrsp = NoResponse /\ lasterr = NoExc
    /\ retries = 0
    /\ slept = 0 /\ dispatched = {} /\ failed = {} /\ wrote = {}
    /\ runs = 1
    /\ peer = IdlePeer
    /\ crawl = c

\* the state of a fresh process of the asset generator
Started(file, e, cli, lim, sc, dir) ==
    StartedWith(file, e, cli, lim, sc, dir,
                CrawlOf("idle", [kind |-> "none", n |-> 0], << >>, {}))

\* generate called with the given arguments, not through main
Fresh(file, e, cli, lim, sc, dir) ==
    Started(file, e, cli, lim, sc, dir) /\ argv = NoArgv

\* the output directory in which exactly the files of present exist
DirWith(present) == [f \in FileNames |-> IF f \in present THEN OldFile ELSE NoFile]

KeyEnv == << << "OPENAI_API_KEY", Str("sk-1") >> >>

\* the sequences over S of length at most n
SeqsUpTo(S, n) == UNION { [1..k -> S] : k \in 0..n }

\* the file names the ASSET lines of a spec file give
FilesIn(ws) == { FileOf(ws[i]) : i \in 1..Len(ws) }

\* a spec file: a PROMPT line, the given configuration lines, one ASSET line for
\* each word of ws
FileWith(config, ws) ==
    << << "PROMPT", "A" >> >> \o config
       \o [i \in 1..Len(ws) |-> << "ASSET", ws[i], "tile", ws[i] >>]

\* the generation loop: up to MaxAssets assets (names may repeat, and may be a
\* companion name), any part of their files present, any limit, both policies
Init ==
    \E coe \in { << >>, << << "CONTINUE_ON_ERROR", "yes" >> >> },
       ws \in SeqsUpTo({ "a.png", "b.png", "a.md" }, MaxAssets),
       lim \in -1..MaxLimit :
        \E present \in (SUBSET FilesIn(ws)) \cup { FileNames } :
            Fresh(FileWith(coe, ws), KeyEnv, EmptyCfg, lim, "basic", DirWith(present))

Spec == Init /\ [][Next]_vars

\* configuration lines of a spec file; the last three are not well formed
ConfigLines ==
    { << >>,
      << << "MODEL", "gpt-5.2" >>, << "N", "4" >> >>,
      << << "MODEL", "dall-e-3" >>, << "CONTINUE_ON_ERROR", "TRUE" >> >>,
      << << "SIZE", "512x512" >>, << "MODEL", "gpt-5.2" >>, << >>,
         << "MODEL", "gpt-image-1" >>, << "RESPONSE_FORMAT", "url" >>,
         << "N", "4" >> >>,
      << << "CONTINUE_ON_ERROR", "no" >>, << "MODEL", "DALL-E-3" >> >>,
      << << "MODEL", "dall-e-2" >>, << "UNKNOWNTAG", "value" >> >>,
      << << "model", "gpt-5.2" >> >>,
      << << "MODEL" >> >> }

Environments ==
    { << >>,
      KeyEnv,
      KeyEnv \o << << "MODEL", Str("dall-e-2") >>, << "HOME", Str("/root") >>,
                   << "N", Str("2") >> >>,
      << << "model", Str("gpt-5.2") >>, << "MODEL", Str("dall-e-3") >> >> \o KeyEnv,
      KeyEnv \o << << "CONTINUE_ON_ERROR", Str("Yes") >> >>,
      KeyEnv \o << << "CONTINUE_ON_ERROR", Str("false") >>,
                   << "OPENAI_API_PATH", Str("/custom") >> >>,
      KeyEnv \o << << "OPENAI_ORGANIZATION", Str("org-1") >>,
                   << "openai_organization", Str("org-2") >>,
                   << "OPENAI_API_BASE", Str("https://proxy.local/") >> >> }

\* a dict with one entry
One(k, v) == [x \in { k } |-> v]

CallerOverrides ==
    { EmptyCfg,
      One("api_key", Str("sk-2")),
      Overlay(One("model", Str("gpt-image-1")), One("n", PyInt("3"))),
      Overlay(One("model", Str("gpt-5.2")), One("api_key", Str("sk-2"))),
      One("continue_on_error", PyBool(TRUE)),
      One("continue_on_error", PyBool(FALSE)),
      Overlay(One("continue_on_error", Str("1")), One("size", Str("256x256"))),
      Overlay(One("api_path", Str("/custom")), One("api_key", EmptyStr)) }

\* the configuration layers: two assets, an empty output directory, and every
\* combination of spec-file lines, environment and caller overrides
InitCfg ==
    \E lines \in ConfigLines, e \in Environments, cli \in CallerOverrides :
        Fresh(FileWith(lines, << "a.png", "b.png" >>), e, cli, 2, "basic", DirWith({}))

SpecCfg == InitCfg /\ [][Next]_vars

\* the dispatcher: one asset, an empty output directory, both error policies,
\* and a service that answers with any status, headers and body
InitCall ==
    \E coe \in { << >>, << << "CONTINUE_ON_ERROR", "yes" >> >> } :
        Fresh(FileWith(coe, << "a.png" >>), KeyEnv, EmptyCfg, 1, "full", DirWith({}))

SpecCall == InitCall /\ [][Next]_vars

\* the retry loop: one or two assets and a service that is busy: it answers
\* rate-limit-zero with a reset in the future up to MaxRetries times in a run
InitRetry ==
    \E coe \in { << >>, << << "CONTINUE_ON_ERROR", "yes" >> >> },
       ws \in { << "a.png" >>, << "a.png", "b.png" >> } :
        Fresh(FileWith(coe, ws), KeyEnv, EmptyCfg, MaxLimit, "busy", DirWith({}))

\* the process keeps running: a request that is due is sent and answered, and
\* a sleep that has begun ends
SpecRetry == InitRetry /\ [][Next]_vars /\ WF_vars(Post) /\ WF_vars(Sleep)

\* two invocations: one or two assets (the same name twice, or two names), an
\* empty output directory, both error policies
InitPair ==
    \E coe \in { << >>, << << "CONTINUE_ON_ERROR", "yes" >> >> },
       ws \in { << "a.png" >>, << "a.png", "a.png" >>, << "a.png", "b.png" >> } :
        Fresh(FileWith(coe, ws), KeyEnv, EmptyCfg, MaxLimit, "basic", DirWith({}))

SpecPair == InitPair /\ [][NextPair]_vars

\* command lines: no option, the flag, a model, a path, a key, a count
CommandLines ==
    { EmptyCfg,
      One("continue_on_error", PyBool(TRUE)),
      One("model", Str("gpt-5.2")),
      Overlay(One("api_path", Str("/custom")), One("model", Str("gpt-5.2"))),
      One("api_path", Str("/custom")),
      Overlay(One("api_key", Str("sk-2")), One("count", PyInt("2"))) }

\* environments of a run through main
MainEnvironments ==
    { KeyEnv,
      KeyEnv \o << << "CONTINUE_ON_ERROR", Str("true") >> >>,
      KeyEnv \o << << "OPENAI_API_PATH", Str("/v1/images/edits") >> >>,
      KeyEnv \o << << "MODEL", Str("gpt-5.2") >>,
                   << "OPENAI_API_PATH", Str("/v1/images/edits") >> >> }

\* lines 613-618: main parses the command line and calls generate with the
\* spec, the count and the filtered options
InitMain ==
    \E opts \in CommandLines, e \in MainEnvironments,
       lines \in { << >>, << << "CONTINUE_ON_ERROR", "yes" >> >>,
                   << << "MODEL", "dall-e-3" >> >> } :
        LET r == parse_cli(opts) IN
        /\ Started(FileWith(lines, << "a.png", "b.png" >>), e, r.cli_cfg,
                   CountOf(r.ns), "basic", DirWith({}))
        /\ argv = [given |-> TRUE, opts |-> opts]

SpecMain == InitMain /\ [][Next]_vars

\* resuming: distinct file names, any part of the files present, a limit of at
\* least 1, and a service whose every call succeeds in the end
InitResume ==
    \E ws \in { q \in SeqsUpTo({ "a.png", "b.png", "a.md" }, MaxAssets) :
                    \A i, j \in 1..Len(q) : i # j => q[i] # q[j] },
       lim \in 1..MaxLimit :
        \E present \in SUBSET FilesIn(ws) :
            Fresh(FileWith(<< >>, ws), KeyEnv, EmptyCfg, lim, "good", DirWith(present))

\* the program is run again and again, and each run goes on to its end
SpecResume == InitResume /\ [][Next]_vars /\ WF_vars(Next)

\* the link fetcher run on one of the webs, with sources and a whitelist
InitCrawl ==
    \E w \in { [kind |-> "chain", n |-> k] : k \in 0..MaxChain }
              \cup { [kind |-> k, n |-> 0] : k \in { "loop", "variants", "broken" } },
       srcs \in { << P(0) >>, << P(0), P(0) >>, << P(0), Y >>, << X >>, << F >>,
                  << P(1), P(0) >> },
       wl \in { {}, { X }, { P(1), P(2), Xmd, Y } } :
        /\ StartedWith(FileWith(<< >>, << >>), KeyEnv, EmptyCfg, 0, "basic",
                       DirWith({}), CrawlOf("run", w, srcs, wl))
        /\ argv = NoArgv

\* the fetcher runs on to its end
SpecCrawl == InitCrawl /\ [][NextCrawl]_vars /\ WF_vars(NextCrawl)

\* lines a spec file can hold: blank, PROMPT and ASSET lines in several
\* spellings, configuration lines, and lines that are not well formed
ParseLines ==
    { << >>,
      << "PROMPT", "A" >>,
      << "prompt", "B" >>,
      << "ASSET", "a.png", "x" >>,
      << "Asset", "b.png", "y", "z" >>,
      << "MODEL", "gpt-5.2" >>,
      << "MODEL", "dall-e-3" >>,
      << "SIZE", "512x512" >>,
      << "UNKNOWNTAG", "value" >>,
      << "model", "gpt-5.2" >>,
      << "Size", "1024x1024" >>,
      << "MODEL" >>,
      << "ASSET", "a.png" >>,
      << "tile", "a.png" >> }

\* the parser: every spec file of at most MaxLines lines, an empty output
\* directory, a credential in the environment, one new asset for each run
InitParse ==
    \E file \in SeqsUpTo(ParseLines, MaxLines) :
        Fresh(file, KeyEnv, EmptyCfg, 1, "basic", DirWith({}))

SpecParse == InitParse /\ [][Next]_vars


---------------------------------------------------------------------------
(* Properties of the generation loop. *)

Min(a, b) == IF a < b THEN a ELSE b

\* the companion description file of an image file: the same stem, suffix .md
Companion(f) == [stem |-> f.stem, ext |-> ".md"]

\* the files of the asset entry i
FilesOfAsset(i) == { assets[i].filename, Companion(assets[i].filename) }

\* every asset file of the parsed spec exists in dir
AllPresent(dir) ==
    /\ pc # "begin" /\ Len(assets) >= 1
    /\ \A i \in 1..Len(assets) : dir[assets[i].filename] # NoFile

\* C1: an asset whose file exists when its turn comes is not dispatched, in this
\* step or later in the run (no payload, no request, no write), and a run that
\* starts with every asset file present makes no request, creates nothing,
\* reports created = 0 and leaves every file as it was; so does the run after it.
C1_ExistingNeverDispatched ==
    /\ [][(pc = "loop" /\ idx <= Len(assets) /\ fs[assets[idx].filename] # NoFile)
            => /\ payload' = payload /\ calls' = calls /\ fs' = fs
               /\ dispatched' = dispatched
               /\ pc' = "done" \/ (pc' = "loop" /\ idx' = idx + 1)]_vars
    /\ [][runs' = runs => idx' >= idx]_vars
    /\ [](\A i \in dispatched : i <= idx)
    /\ [](AllPresent(before) =>
            /\ calls = << >> /\ fetches = 0 /\ dispatched = {} /\ created = 0
            /\ fs = before
            /\ pc = "done" => report = << 0, 0, Len(assets) >>)

\* C1 witness: a second run over a directory that held every asset file, under
\* another content than this spec would write, has ended with created = 0
C1_Witness ==
    /\ runs = 2 /\ pc = "done" /\ AllPresent(before)
    /\ \E i \in 1..Len(assets) : fs[assets[i].filename] = OldFile
    /\ report = << 0, 0, Len(assets) >> /\ calls = << >>

\* C2 (amended): created never decreases in a run and is at most max(L, 0); no
\* payload is built and no request is sent in a state where created >= L; a
\* file is written only as the image or the companion of a dispatched asset,
\* so an asset not reached when the limit is hit has a file written in this run
\* only where it shares that file with an asset dispatched before it.
C2_LimitAmended ==
    /\ [](created <= (IF limit > 0 THEN limit ELSE 0))
    /\ [][runs' = runs => created' >= created]_vars
    /\ [][(runs' = runs /\ (dispatched' # dispatched \/ calls' # calls))
            => created < limit]_vars
    /\ [](\A w \in wrote : w[1] \in dispatched /\ w[2] \in FilesOfAsset(w[1]))
    /\ [](\A f \in FileNames : fs[f] # before[f] => \E w \in wrote : w[2] = f)
    /\ [](pc = "done" =>
            \A j \in idx..Len(assets) :
                fs[assets[j].filename] # before[assets[j].filename]
                => \E i \in dispatched : assets[j].filename \in FilesOfAsset(i))

\* C2 witness: the loop stopped at the limit with an asset left behind it, whose
\* file is still missing
C2_Witness ==
    /\ pc = "done" /\ limit >= 1 /\ created = limit /\ idx <= Len(assets)
    /\ fs[assets[idx].filename] = NoFile

\* C2 as stated: an asset not reached when the limit is hit has no file written
\* in this run
C2_Original ==
    pc = "done" =>
        \A j \in idx..Len(assets) :
            fs[assets[j].filename] = before[assets[j].filename]

\* the run has ended with its report, from an empty directory, with a limit
\* L >= 0, and every call of the run succeeded on its first response
AllSucceeded ==
    /\ pc = "done" /\ limit >= 0 /\ before = DirWith({})
    /\ failed = {} /\ retries = 0

DistinctNames ==
    \A i, j \in 1..Len(assets) : i # j => assets[i].filename # assets[j].filename

\* no file of one asset is a file of another, and no image is its own companion
DisjointFiles ==
    /\ \A i, j \in 1..Len(assets) : i # j => FilesOfAsset(i) \cap FilesOfAsset(j) = {}
    /\ \A i \in 1..Len(assets) : assets[i].filename # Companion(assets[i].filename)

\* what C3 concludes: min(L, N) requests, one for each entry of the prefix, the
\* image and the companion of exactly the prefix written, and the report
PrefixCreated ==
    LET N == Len(assets)
        M == Min(limit, N)
    IN  /\ Len(calls) = M
        /\ \A k \in 1..M : calls[k].idx = k
        /\ \A f \in FileNames : fs[f] # NoFile <=> \E i \in 1..M : f \in FilesOfAsset(i)
        /\ \A i \in 1..M :
            /\ fs[assets[i].filename].kind = "bytes"
            /\ fs[Companion(assets[i].filename)] =
                 [kind |-> "text",
                  data |-> << assets[i].filename.stem, assets[i].filename.ext >>
                           \o preamble \o assets[i].details]
        /\ report = << M, N - M, N >>

\* C3 (amended): with N assets whose image and companion files are pairwise
\* distinct, an empty directory, L >= 0 and every call succeeding on its first
\* response, generate sends exactly min(L, N) requests, writes the image and the
\* companion .md of exactly the first min(L, N) assets and reports
\* Created min(L, N); N - min(L, N) remaining; N total.
C3_PrefixAmended == (AllSucceeded /\ DisjointFiles) => PrefixCreated

\* C3 witness: the two-asset spec with L = 1
C3_Witness ==
    /\ AllSucceeded /\ DisjointFiles /\ limit = 1
    /\ Len(assets) = 2 /\ assets[1].filename = FileOf("a.png")
    /\ preamble = << "A" >>
    /\ Len(calls) = 1 /\ report = << 1, 1, 2 >>
    /\ fs[FileOf("a.png")] # NoFile /\ fs[FileOf("a.md")] # NoFile
    /\ fs[FileOf("b.png")] = NoFile

\* C3 as stated: the same for every spec whose file names are distinct
C3_Original == (AllSucceeded /\ DistinctNames) => PrefixCreated

---------------------------------------------------------------------------
(* Properties of the error policy and of the configuration. *)

\* the spec file was parsed and the configuration of this run is merged
Configured == pc # "begin" /\ parse_spec(specfile).status = "ok"

CoeValue == Get(cfg, "continue_on_error", PyNone)

\* continue_on_error is the boolean True, or a string that equals "true", "1"
\* or "yes" when case is ignored
ContinuePolicy ==
    \/ CoeValue = PyBool(TRUE)
    \/ CoeValue.t = "str" /\ Lower(CoeValue.s) \in { << "true" >>, << "1" >>, << "yes" >> }

\* C4: a request ends with an error exactly when generate records the asset as
\* failed; then, under the continue policy, the loop goes on to the next asset
\* with created unchanged, and in every other case the run ends at once with
\* exit status 1, with no report and no later request.
C4_ErrorPolicy ==
    /\ [][(runs' = runs /\ calls' # calls)
            => ((lasterr'.type # "") <=> (failed' = failed \cup { idx } /\ idx \notin failed))]_vars
    /\ [][(runs' = runs /\ failed' # failed)
            => /\ created' = created /\ fs' = fs /\ report' = << >>
               /\ IF ContinuePolicy
                  THEN pc' = "loop" /\ idx' = idx + 1 /\ exitcode' = -1
                  ELSE pc' = "exit" /\ exitcode' = 1]_vars
    /\ [][pc = "exit" => (pc' = "begin" /\ runs' = runs + 1)]_vars
    /\ [](pc = "exit" => report = << >> /\ exitcode = 1)

\* C4 witness: CONTINUE_ON_ERROR=Yes in the environment; the first asset failed,
\* the second was created, and the run ended with its report
C4_Witness ==
    /\ pc = "done" /\ CoeValue = Str("Yes") /\ failed = { 1 } /\ created = 1
    /\ report = << 1, 1, 2 >>

\* a line parse_spec accepts
WellFormedLine(l) ==
    \/ l = << >>
    \/ Len(l) >= 2 /\ LowerWord(l[1]) = "prompt"
    \/ Len(l) >= 3 /\ LowerWord(l[1]) = "asset"
    \/ Len(l) >= 2 /\ l[1] \in CapsWords /\ LowerWord(l[1]) \in ALLOWED_TAGS

BadSpec == \E i \in 1..Len(specfile) : ~WellFormedLine(specfile[i])

\* no api_key from the caller and no OPENAI_API_KEY in the environment (the
\* spec file cannot give one)
NoCredential ==
    /\ "api_key" \notin DOMAIN cfg_cli
    /\ \A i \in 1..Len(env) : env[i][1] # "OPENAI_API_KEY"

\* C7: with a spec parse error or a missing credential the run sends no request
\* and writes no file, and ends with exit status 1 and a message, whatever
\* continue_on_error is.
C7_AbortBeforeNetwork ==
    (BadSpec \/ NoCredential) =>
        /\ calls = << >> /\ fetches = 0 /\ dispatched = {}
        /\ fs = before /\ wrote = {}
        /\ pc \in { "begin", "exit" }
        /\ pc = "exit" => exitcode = 1 /\ exitmsg # NoMsg /\ report = << >>

\* C7 witness: no credential, continue_on_error = True from the caller
C7_Witness ==
    /\ pc = "exit" /\ NoCredential /\ ~BadSpec
    /\ "continue_on_error" \in DOMAIN cfg_cli /\ cfg_cli["continue_on_error"] = PyBool(TRUE)
    /\ exitmsg = NoKeyMsg /\ exitcode = 1

\* the values the environment gives for a configuration key
EnvSupplies(k) ==
    { env[i][2] : i \in { j \in 1..Len(env) :
        \/ env[j][1] \in DOMAIN env_map /\ env_map[env[j][1]] = k
        \/ k \in ALLOWED_TAGS /\ LowerWord(env[j][1]) = k } }

ConfigKeys == ALLOWED_TAGS \cup { "api_key", "api_path", "api_base", "verbose" }

\* C8: for every key the effective configuration holds the caller's value if the
\* caller gives the key, else the environment's if the environment gives it,
\* else the spec file's, and no other key.
C8_MergePrecedence ==
    Configured =>
        /\ DOMAIN cfg \subseteq ConfigKeys
        /\ \A k \in ConfigKeys :
            IF k \in DOMAIN cfg_cli THEN k \in DOMAIN cfg /\ cfg[k] = cfg_cli[k]
            ELSE IF EnvSupplies(k) # {} THEN k \in DOMAIN cfg /\ cfg[k] \in EnvSupplies(k)
            ELSE IF k \in DOMAIN parse_spec(specfile).config
            THEN k \in DOMAIN cfg /\ cfg[k] = parse_spec(specfile).config[k]
            ELSE k \notin DOMAIN cfg

\* C8 witness: caller model gpt-5.2 against MODEL=dall-e-3 in the environment and
\* a MODEL line in the spec file
C8_Witness ==
    /\ Configured
    /\ "model" \in DOMAIN cfg_cli /\ cfg_cli["model"] = Str("gpt-5.2")
    /\ Str("dall-e-3") \in EnvSupplies("model")
    /\ "model" \in DOMAIN parse_spec(specfile).config
    /\ cfg["model"] = Str("gpt-5.2")

\* the effective model value of the run
EffModel == IF "model" \in DOMAIN cfg THEN cfg["model"].s ELSE << "gpt-image-1" >>

LegacyModels == { << "dall-e-2" >>, << "dall-e-3" >>, << "gpt-image-1" >> }

ImagesKeys == { "prompt", "n", "model" }
ResponsesKeys == { "model", "input", "tools" }

ShapeFollowsModel(p) ==
    IF EffModel \in LegacyModels
    THEN ImagesKeys \subseteq DOMAIN p /\ DOMAIN p \cap { "input", "tools" } = {}
    ELSE DOMAIN p = ResponsesKeys

\* C9: every payload of a run has the Images shape if the effective model is
\* dall-e-2, dall-e-3 or gpt-image-1 (or absent) and the Responses shape for
\* any other value, and the default API path follows the same test.
C9_ShapeByModel ==
    /\ \A k \in 1..Len(calls) : ShapeFollowsModel(calls[k].payload)
    /\ pc \in { "post", "sleep" } => ShapeFollowsModel(payload)
    /\ Configured =>
         default_api_path(cfg) = IF EffModel \in LegacyModels
                                 THEN Str("/v1/images/generations")
                                 ELSE Str("/v1/responses")
    /\ (Configured /\ "api_path" \notin DOMAIN cfg_cli /\ EnvSupplies("api_path") = {})
         => api_path = default_api_path(cfg)

\* C9 witness: two requests of one run, both of the Responses shape, for a model
\* that differs from a legacy identifier by case only
C9_Witness ==
    /\ Len(calls) = 2 /\ EffModel = << "DALL-E-3" >>
    /\ DOMAIN calls[1].payload = ResponsesKeys /\ DOMAIN calls[2].payload = ResponsesKeys
    /\ api_path = Str("/v1/responses")

HasB64Flag(p) ==
    "response_format" \in DOMAIN p /\ p["response_format"] = Str("b64_json")

\* C10 (amended): for model dall-e-3 the payload has the Images shape and does
\* carry response_format = b64_json, as for dall-e-2; a gpt-image-1 payload
\* carries no response_format at all.
C10_Dalle3Amended ==
    \A k \in 1..Len(calls) :
        LET p == calls[k].payload IN
        /\ p["model"].s \in { << "dall-e-3" >>, << "dall-e-2" >> }
             => ImagesKeys \subseteq DOMAIN p /\ HasB64Flag(p)
        /\ p["model"].s = << "gpt-image-1" >> => "response_format" \notin DOMAIN p

\* C10 witness: a request for dall-e-3 was sent, with the flag
C10_Witness ==
    /\ Len(calls) >= 1 /\ calls[1].payload["model"] = Str("dall-e-3")
    /\ "prompt" \in DOMAIN calls[1].payload /\ HasB64Flag(calls[1].payload)

\* C10 as stated: the dall-e-3 payload carries no response_format = b64_json
C10_Original ==
    \A k \in 1..Len(calls) :
        calls[k].payload["model"].s = << "dall-e-3" >>
            => ImagesKeys \subseteq DOMAIN calls[k].payload /\ ~HasB64Flag(calls[k].payload)

---------------------------------------------------------------------------
(* Properties of the dispatcher. *)

\* the response has no requests left and a reset time after time t
LimitedUntilLater(r, t) ==
    r.kind = "response" /\ r.remaining = "0" /\ r.reset.k = "int" /\ r.reset.v > t

\* C5: a response of any status with remaining '0' and a reset epoch in the
\* future is neither returned nor raised: call_openai sleeps reset - now seconds
\* and then sends the same request again.
C5_SleepAndResend ==
    /\ [][(runs' = runs /\ calls' # calls /\ LimitedUntilLater(lastrsp', now))
            => /\ pc' = "sleep" /\ wait' = lastrsp'.reset.v - now
               /\ lasterr' = NoExc /\ failed' = failed /\ exitcode' = exitcode
               /\ fs' = fs /\ created' = created /\ idx' = idx]_vars
    /\ [][pc = "sleep"
            => /\ pc' = "post" /\ now' = now + wait /\ slept' = slept + wait
               /\ payload' = payload /\ idx' = idx /\ calls' = calls]_vars
    /\ [][(runs' = runs /\ calls' # calls /\ calls # << >> /\ calls[Len(calls)].idx = idx)
            => calls'[Len(calls')] = calls[Len(calls)]]_vars

\* C5 witness: a response with status 500 made the call wait, and the request
\* is about to be sent again
C5_Witness ==
    /\ pc = "post" /\ Len(calls) = 1 /\ slept >= 1 /\ now = 100 + slept
    /\ lastrsp.status = 500 /\ lastrsp.remaining = "0"

\* an error status: 4xx or 5xx
ErrorStatus(r) == r.kind = "response" /\ r.status >= 400

\* C6 as stated, for the error statuses: a 4xx or 5xx response that is not a
\* rate-limit-zero case, and a network exception, end the call with an error
\* after that one attempt; for the response the error carries the status code
\* and the reason phrase, and the decoded details when the body is JSON.
C6_Original ==
    [][(/\ runs' = runs /\ calls' # calls
        /\ lastrsp'.kind = "exception"
           \/ (ErrorStatus(lastrsp') /\ ~RateLimitZero(lastrsp')))
         => /\ lasterr'.type # "" /\ idx \in failed' /\ pc' \in { "loop", "exit" }
            /\ ErrorStatus(lastrsp')
                 => /\ lasterr'.status = lastrsp'.status
                    /\ lasterr'.reason = Reason(lastrsp'.status)
                    /\ (lastrsp'.ctype = "application/json"
                        /\ lastrsp'.body.json # "invalid" /\ ~lastrsp'.body.empty)
                         => lasterr'.details]_vars


---------------------------------------------------------------------------
(* Properties of the payload builders. *)

\* the tool objects of a Responses-shape payload
ToolsOf(p) == { p["tools"].s[j] : j \in 1..Len(p["tools"].s) }

OneImage(p) ==
    /\ IsImagesShape(p) => "n" \in DOMAIN p /\ p["n"] = PyInt("1")
    /\ IsResponsesShape(p) =>
         /\ "n" \notin DOMAIN p
         /\ \A tool \in ToolsOf(p) : "n" \notin DOMAIN tool

\* C11: every request asks for one image: an Images-shape payload has n = 1
\* whatever n the spec file, the environment or the caller supplied, and a
\* Responses-shape payload has no n, at the top level or in its tool object.
C11_OneImage ==
    /\ OneImage(payload)
    /\ \A k \in 1..Len(calls) : OneImage(calls[k].payload)

\* an Images-shape request was sent although a different n is configured
C11_Witness ==
    /\ "n" \in DOMAIN cfg /\ cfg["n"] # PyInt("1")
    /\ \E k \in 1..Len(calls) : IsImagesShape(calls[k].payload)


---------------------------------------------------------------------------
(* Properties of parse_spec. *)

IsPromptLine(l) == Len(l) >= 2 /\ LowerWord(l[1]) = "prompt"
IsAssetLine(l) == Len(l) >= 3 /\ LowerWord(l[1]) = "asset"

\* <KEYWORD> <value>: a keyword of capital letters and underscores, and a value
KeywordShaped(l) == Len(l) >= 2 /\ l[1] \in CapsWords

IsConfigLine(l) ==
    /\ ~IsPromptLine(l) /\ ~IsAssetLine(l)
    /\ KeywordShaped(l) /\ LowerWord(l[1]) \in ALLOWED_TAGS

Offending(l) == l # << >> /\ ~IsPromptLine(l) /\ ~IsAssetLine(l) /\ ~IsConfigLine(l)

OffendingLines == { i \in 1..Len(specfile) : Offending(specfile[i]) }

\* the line number of the first offending line
FirstOffending == CHOOSE i \in OffendingLines : \A j \in OffendingLines : i <= j

\* C12: parse_spec stops at the first offending non-blank line and reports its
\* 1-based line number, blank lines counted; the error is 'unknown keyword'
\* when that line is keyword-shaped and 'malformed line' otherwise; a file
\* with no offending line gives no spec error.
C12_FirstOffendingLine ==
    pc # "begin" =>
        IF OffendingLines = {} THEN exitmsg.lineno = 0
        ELSE /\ pc = "exit" /\ exitcode = 1
             /\ exitmsg.lineno = FirstOffending
             /\ exitmsg.kind = IF KeywordShaped(specfile[FirstOffending])
                               THEN "unknown keyword" ELSE "malformed line"
             /\ KeywordShaped(specfile[FirstOffending])
                  => exitmsg.key = specfile[FirstOffending][1]

\* parsing stopped at an unknown keyword that follows a blank line
C12_Witness ==
    /\ pc = "exit" /\ exitmsg.kind = "unknown keyword" /\ exitmsg.lineno >= 2
    /\ \E i \in 1..(exitmsg.lineno - 1) : specfile[i] = << >>


\* a configuration line when the keyword is read without regard to case
IsConfigLineAnyCase(l) ==
    /\ ~IsPromptLine(l) /\ ~IsAssetLine(l)
    /\ Len(l) >= 2 /\ LowerWord(l[1]) \in ALLOWED_TAGS

AcceptableAnyCase(l) ==
    l = << >> \/ IsPromptLine(l) \/ IsAssetLine(l) \/ IsConfigLineAnyCase(l)

\* the line numbers of the configuration lines for key k, in any case
LinesFor(k) ==
    { i \in 1..Len(specfile) :
        IsConfigLineAnyCase(specfile[i]) /\ LowerWord(specfile[i][1]) = k }

LastFor(k) == CHOOSE i \in LinesFor(k) : \A j \in LinesFor(k) : j <= i

\* C13 as stated: keywords are recognized in any case in all three grammars: a
\* file whose configuration keywords are allow-listed, in whatever case, is
\* accepted, and each keyword is recorded under its lower-cased key.
C13_Original ==
    (pc # "begin" /\ \A i \in 1..Len(specfile) : AcceptableAnyCase(specfile[i]))
        => /\ exitmsg.lineno = 0
           /\ \A k \in ALLOWED_TAGS :
                LinesFor(k) # {} =>
                    /\ k \in DOMAIN cfg
                    /\ cfg[k].s = Tail(specfile[LastFor(k)])


RECURSIVE Fragments(_)
\* the PROMPT fragments of a file, in file order, one space between them
Fragments(file) ==
    IF file = << >> THEN << >>
    ELSE (IF IsPromptLine(Head(file)) THEN Tail(Head(file)) ELSE << >>)
             \o Fragments(Tail(file))

\* the ASSET lines of a file, in file order
AssetLinesOf(file) == SelectSeq(file, IsAssetLine)

\* the line numbers of the configuration lines for key k
ConfigLinesFor(k) ==
    { i \in 1..Len(specfile) :
        IsConfigLine(specfile[i]) /\ LowerWord(specfile[i][1]) = k }

LastConfigFor(k) ==
    CHOOSE i \in ConfigLinesFor(k) : \A j \in ConfigLinesFor(k) : j <= i

\* C14: for a well-formed spec file parse_spec returns the PROMPT fragments
\* joined in file order, one (filename, detail) entry for each ASSET line in
\* declaration order with duplicates kept, for each allow-listed keyword the
\* value of its last occurrence, and the number of ASSET lines; a file of blank
\* lines gives an empty preamble, no assets and an empty config.
C14_ParseResult ==
    (pc # "begin" /\ OffendingLines = {}) =>
        LET al == AssetLinesOf(specfile) IN
        /\ exitmsg.lineno = 0
        /\ preamble = Fragments(specfile)
        /\ Len(assets) = Len(al)
        /\ \A i \in 1..Len(al) :
             /\ assets[i].filename = FileOf(al[i][2])
             /\ assets[i].details = SubSeq(al[i], 3, Len(al[i]))
        /\ total_assets = Len(al)
        /\ \A k \in ALLOWED_TAGS :
             IF ConfigLinesFor(k) = {} THEN k \notin DOMAIN cfg
             ELSE k \in DOMAIN cfg /\ cfg[k].s = Tail(specfile[LastConfigFor(k)])
        /\ (\A i \in 1..Len(specfile) : specfile[i] = << >>)
             => preamble = << >> /\ assets = << >> /\ DOMAIN cfg \cap ALLOWED_TAGS = {}

\* a parsed file with two different PROMPT lines, a keyword given twice with
\* different values, or the same ASSET line twice
C14_Witness ==
    /\ pc # "begin" /\ OffendingLines = {} /\ Len(specfile) = MaxLines
    /\ \/ preamble = << "A", "B" >>
       \/ Cardinality(ConfigLinesFor("model")) = 2 /\ cfg["model"].s = << "dall-e-3" >>
          /\ specfile[1] # specfile[2]
       \/ Len(assets) = 2 /\ assets[1] = assets[2]


---------------------------------------------------------------------------
(* Properties of duplicate entries and of the report. *)

\* entries i < j name the same file, and the file was missing when the run began
Duplicates(i, j) ==
    /\ i < j /\ assets[i].filename = assets[j].filename
    /\ before[assets[i].filename] = NoFile

\* C15, amended: duplicate entries are separate iterations, each with its own
\* existence check: a later duplicate is dispatched only if every earlier one
\* failed, it is not dispatched once an earlier one has written the file, and
\* when the run ends below the limit with the file still missing every
\* duplicate has been dispatched.
C15_DuplicatesAmended ==
    \A i, j \in 1..Len(assets) :
        Duplicates(i, j) =>
            /\ j \in dispatched => i \in failed
            /\ << i, assets[i].filename >> \in wrote => j \notin dispatched
            /\ (pc = "done" /\ created < limit /\ fs[assets[i].filename] = NoFile)
                 => i \in dispatched /\ j \in dispatched

\* the first duplicate failed, the second was dispatched and wrote the file
C15_Witness ==
    \E i, j \in 1..Len(assets) :
        /\ Duplicates(i, j)
        /\ i \in failed /\ j \in dispatched
        /\ << j, assets[j].filename >> \in wrote

\* C15 as stated: when the file is missing at the start and the limit allows
\* it, each duplicate is dispatched, whatever became of the earlier one
C15_Original ==
    \A i, j \in 1..Len(assets) :
        (Duplicates(i, j) /\ pc = "done" /\ created < limit)
            => i \in dispatched /\ j \in dispatched


\* the entries whose file does not exist in dir
EntriesMissing(dir) == { i \in 1..Len(assets) : dir[assets[i].filename] = NoFile }

\* the entries whose request succeeded and whose image was written
EntriesCreated == { i \in 1..Len(assets) : << i, assets[i].filename >> \in wrote }

ReportSnapshot ==
    /\ report[1] = created
    /\ report[2] = Cardinality(EntriesMissing(fs))
    /\ report[3] = Len(AssetLinesOf(specfile))

ReportBalance ==
    /\ report[1] + report[2] = Cardinality(EntriesMissing(before))
    /\ report[1] = Cardinality(EntriesCreated)
    /\ failed \subseteq EntriesMissing(fs)
    /\ failed \cap EntriesCreated = {}

\* C16, amended: at the end-of-run report, remaining is the number of entries
\* whose file does not exist and total is the number of ASSET lines; when no
\* file of one asset (image or companion) is a file of another, created +
\* remaining is the number of assets whose file was missing at the start, and
\* every failed asset is counted in remaining and not in created.
C16_ReportAmended ==
    pc = "done" => ReportSnapshot /\ (DisjointFiles => ReportBalance)

\* a run that ends with one asset failed and one created
C16_Witness ==
    /\ pc = "done" /\ DisjointFiles
    /\ failed # {} /\ created >= 1 /\ report[2] >= 1

\* C16 as stated: the same for every spec whose file names are distinct
C16_Original ==
    pc = "done" => ReportSnapshot /\ (DistinctNames => ReportBalance)


---------------------------------------------------------------------------
(* Properties of the extraction of the image bytes. *)

Inline(w) == [kind |-> "inline", v |-> w]
Remote(u) == [kind |-> "url", v |-> u]
NoSource == [kind |-> "error", v |-> ""]

\* the positions of the image_generation_call items of an output list
ImageCalls(items) ==
    { j \in 1..Len(items) :
        items[j].k = "obj" /\ items[j].type = "image_generation_call" }

\* the image source C17 names for a decoded body
SourceOf(body) ==
    IF body.data.k = "list" /\ Len(body.data.items) >= 1 THEN
        LET first == body.data.items[1] IN
        IF first.k # "obj" THEN NoSource
        ELSE IF first.b64 # "absent" THEN Inline(first.b64)
        ELSE IF first.url # "absent" THEN Remote(first.url)
        ELSE NoSource
    ELSE IF body.output.k = "list" /\ ImageCalls(body.output.items) # {} THEN
        LET calls_ == ImageCalls(body.output.items)
            j == CHOOSE x \in calls_ : \A y \in calls_ : x <= y
            result == body.output.items[j].result
        IN  IF result \in { "absent", "blank", "nonstr" } THEN NoSource
            ELSE Inline(result)
    ELSE NoSource

\* the asset of this turn failed and nothing was written or counted
AssetFailed ==
    /\ idx \in failed' /\ lasterr'.type # ""
    /\ fs' = fs /\ created' = created
    /\ pc' = IF ShouldContinue(cfg) THEN "loop" ELSE "exit"

\* the asset of this turn was created with the bytes b
AssetStored(b) ==
    /\ idx \notin failed' /\ lasterr'.type = ""
    /\ fs'[assets[idx].filename].data = << b >>
    /\ created' = created + 1

\* C17: when call_openai returns a body, the first element of a non-empty
\* 'data' list alone decides (inline before url; neither, or a non-object,
\* fails); otherwise the first image_generation_call item of an 'output' list
\* alone decides (a missing or blank result fails even when a later item has
\* one); a body with no image data fails; and every failure is a failure of
\* that asset, handled by the error policy of generate.
C17_ImageSource ==
    [][(runs' = runs /\ calls' # calls /\ CallOutcome(lastrsp', now).k = "return")
         => LET src == SourceOf(lastrsp'.body) IN
            CASE src.kind = "error" -> AssetFailed /\ fetches' = fetches
              [] src.kind = "inline" ->
                   /\ fetches' = fetches
                   /\ IF b64decode(src.v).ok
                      THEN AssetStored(b64decode(src.v).bytes) ELSE AssetFailed
              [] src.kind = "url" ->
                   /\ fetches' = fetches + 1
                   /\ IF UrlContent(src.v).ok
                      THEN AssetStored(UrlContent(src.v).bytes) ELSE AssetFailed]_vars

\* the first image_generation_call item had a blank result, a later one a
\* valid result, and the asset failed
C17_Witness ==
    /\ lastrsp.kind = "response" /\ lastrsp.body.output.k = "list"
    /\ Len(lastrsp.body.output.items) = 2
    /\ lastrsp.body.output.items[1].result = "blank"
    /\ lastrsp.body.output.items[2].result = "SU1HMg=="
    /\ failed = { 1 } /\ lasterr.type = "ValueError"
    /\ fs[FileOf("a.png")] = NoFile


---------------------------------------------------------------------------
(* Properties of the retry loop of call_openai. *)

\* the response has no requests left and an integer reset time
LimitedWithReset(r) ==
    r.kind = "response" /\ r.remaining = "0" /\ r.reset.k = "int"

\* max(0, reset_epoch_seconds - now)
WaitFor(r, t) == IF r.reset.v > t THEN r.reset.v - t ELSE 0

\* the response ended the call: no sleep, no further request for this asset,
\* and the asset either failed or was created
FinalResult ==
    /\ pc' \in { "loop", "exit" } /\ wait' = 0 /\ retries' = retries
    /\ \/ idx \in failed' /\ created' = created /\ lasterr'.type # ""
       \/ idx \notin failed' /\ created' = created + 1 /\ lasterr' = NoExc

C19_NoCeiling ==
    /\ [][(runs' = runs /\ calls' # calls)
            => IF LimitedUntilLater(lastrsp', now)
               THEN pc' = "sleep" /\ retries' = retries + 1 /\ idx' = idx
               ELSE pc' \in { "loop", "exit" } /\ retries' = retries]_vars
    /\ (pc = "post") ~> (pc \in { "loop", "exit" })

\* the call went through every retry the service asked for: MaxRetries + 1
\* requests for the one asset, a sleep after each but the last
C19_Witness ==
    /\ retries = MaxRetries /\ Len(calls) = MaxRetries + 1
    /\ slept >= MaxRetries /\ pc \in { "loop", "exit" }
    /\ \A k \in 1..Len(calls) : calls[k] = calls[1]
    /\ lastrsp.status = 200 /\ created = 1


---------------------------------------------------------------------------
(* Properties of two invocations on one output directory. *)

\* the file names an invocation has written, from its record of writes
NamesWritten(w) == { x[2] : x \in w }

\* C20: an invocation requests an asset only when the file does not exist at
\* its check, so it never requests an asset whose file it has itself written;
\* this holds for each of two invocations running at the same time, and it is
\* all that holds: the check and the write are separate steps, so both may
\* request the same asset.
C20_OwnWritesRespected ==
    /\ [][dispatched' # dispatched
            => /\ fs[assets[idx].filename] = NoFile
               /\ assets[idx].filename \notin NamesWritten(wrote)]_vars
    /\ [][peer'.dispatched # peer.dispatched
            => /\ fs[assets[peer.idx].filename] = NoFile
               /\ assets[peer.idx].filename \notin NamesWritten(peer.wrote)]_vars
    /\ [][(peer.pc = "idle" /\ peer'.pc = "idle" /\ dispatched' # dispatched)
            => \A k \in 1..Len(calls) :
                 assets[calls[k].idx].filename = assets[idx].filename
                   => calls[k].idx \in failed]_vars

\* both invocations passed the existence check for the first asset before
\* either wrote it, both requested it, and both wrote its file
C20_Witness ==
    /\ 1 \in dispatched /\ 1 \in peer.dispatched
    /\ << 1, assets[1].filename >> \in wrote
    /\ << 1, assets[1].filename >> \in peer.wrote
    /\ created = 1 /\ peer.created = 1


---------------------------------------------------------------------------
(* Properties of a run through main. *)

\* the command line has no --continue-on-error flag
NoFlag == argv.given /\ "continue_on_error" \notin DOMAIN argv.opts

\* the environment or the spec file sets CONTINUE_ON_ERROR to a true value
TrueOutsideCli ==
    \/ \E i \in 1..Len(env) :
         /\ env[i][1] = "CONTINUE_ON_ERROR"
         /\ Lower(env[i][2].s) \in { << "true" >>, << "1" >>, << "yes" >> }
    \/ \E i \in 1..Len(specfile) :
         /\ Len(specfile[i]) = 2 /\ specfile[i][1] = "CONTINUE_ON_ERROR"
         /\ Lower(Tail(specfile[i])) \in { << "true" >>, << "1" >>, << "yes" >> }

\* C21 as stated: in a run through main without the flag, a true value of
\* CONTINUE_ON_ERROR from the environment or from the spec file is the policy:
\* when an asset fails the loop goes on to the next asset and the run does not
\* abort.
C21_Original ==
    [][(NoFlag /\ TrueOutsideCli /\ runs' = runs /\ failed' # failed)
         => pc' = "loop" /\ idx' = idx + 1 /\ exitcode' = exitcode]_vars


\* the positions of OPENAI_API_PATH in the environment
PathVars == { i \in 1..Len(env) : env[i][1] = "OPENAI_API_PATH" }

\* the path C22 names for the run
ExpectedPath ==
    IF "api_path" \in DOMAIN cfg_cli THEN cfg_cli["api_path"].s
    ELSE IF EffModel \notin LegacyModels THEN << "/v1/responses" >>
    ELSE IF PathVars # {} THEN env[CHOOSE i \in PathVars : TRUE][2].s
    ELSE << "/v1/images/generations" >>

\* the path part of the URL of a request
PathSent(call) == call.url[2]

\* C22: a caller-supplied api_path wins; otherwise a Responses-shape model uses
\* /v1/responses whatever OPENAI_API_PATH is, and an Images-shape model uses
\* OPENAI_API_PATH if set and /v1/images/generations if not; every request of
\* the run goes to that path, so without a caller override a Responses-shape
\* payload never goes to a path taken from the environment.
C22_PathSelection ==
    (pc \notin { "begin" } /\ exitmsg = NoMsg) =>
        /\ api_path.s = ExpectedPath
        /\ \A k \in 1..Len(calls) :
             /\ PathSent(calls[k]) = [i \in 1..Len(ExpectedPath) |->
                                        StripSlashes(ExpectedPath[i])]
             /\ ("api_path" \notin DOMAIN cfg_cli /\ IsResponsesShape(calls[k].payload))
                  => PathSent(calls[k]) = << "v1/responses" >>

\* a Responses-shape request went to /v1/responses although the environment
\* sets OPENAI_API_PATH and the command line gives no path
C22_Witness ==
    /\ PathVars # {} /\ "api_path" \notin DOMAIN cfg_cli
    /\ \E k \in 1..Len(calls) :
         /\ IsResponsesShape(calls[k].payload)
         /\ PathSent(calls[k]) = << "v1/responses" >>


---------------------------------------------------------------------------
(* Properties of failed assets and of resuming. *)

\* the run is over: the report was printed, or the run was aborted
RunOver == pc \in { "done", "exit" } /\ exitmsg = NoMsg /\ assets # << >>

\* the entries other than i that wrote the image file of entry i in this run
WrittenByOther(i) ==
    { j \in 1..Len(assets) : j # i /\ << j, assets[i].filename >> \in wrote }

\* the image file of entry i exists because of this run
MadeInThisRun(i) ==
    \E j \in 1..Len(assets) : << j, assets[i].filename >> \in wrote

\* the failing step writes nothing and counts nothing
FailureWritesNothing ==
    [][(runs' = runs /\ failed' # failed)
         => fs' = fs /\ created' = created /\ wrote' = wrote]_vars

\* C23, amended: a failing attempt writes neither the image nor the .md file
\* and does not count; unless another entry of the run writes the same file,
\* the failed asset's file is still missing at the end of the run and the asset
\* is counted as remaining; the next run dispatches it again if it reaches it
\* (the limit is not used up and the run is not aborted before); a file of an
\* asset exists after a run only if it existed before or a successful entry of
\* this run wrote it.
C23_FailureAmended ==
    /\ FailureWritesNothing
    /\ [](RunOver =>
            \A i \in 1..Len(assets) :
                /\ (i \in failed /\ WrittenByOther(i) = {})
                     => /\ fs[assets[i].filename] = NoFile
                        /\ i \in Missing(fs, assets)
                        /\ pc = "done" => report[2] >= 1
                /\ (i \in prior /\ before[assets[i].filename] = NoFile /\ runs >= 2)
                     => \/ i \in dispatched
                        \/ LimitReached(created, limit)
                        \/ pc = "exit" /\ idx < i
                        \/ WrittenByOther(i) # {}
                /\ fs[assets[i].filename] # NoFile
                     => before[assets[i].filename] # NoFile \/ MadeInThisRun(i))

\* an asset failed in the first run, stayed missing, and the second run
\* dispatched it again and created it
C23_Witness ==
    /\ runs = 2 /\ RunOver
    /\ \E i \in 1..Len(assets) :
         /\ i \in prior /\ before[assets[i].filename] = NoFile
         /\ i \in dispatched /\ << i, assets[i].filename >> \in wrote

\* C23 as stated: the failed asset is still pending at the end of the run and
\* is counted as remaining, the next run dispatches it again, and an image file
\* exists after a run only if it existed before or the extraction of an asset
\* of that name succeeded in this run.
C23_Original ==
    /\ FailureWritesNothing
    /\ [](RunOver =>
            \A i \in 1..Len(assets) :
                /\ i \in failed => fs[assets[i].filename] = NoFile
                /\ (i \in prior /\ runs >= 2) => i \in dispatched
                /\ fs[assets[i].filename] # NoFile
                     => \/ before[assets[i].filename] # NoFile
                        \/ \E j \in EntriesCreated :
                             assets[j].filename = assets[i].filename)


\* the number of asset files missing in dir
MissingCount(dir) == Cardinality(EntriesMissing(dir))

\* what one run that ends with its report has done to the missing files
RunLowersMissing ==
    /\ created = Min(limit, MissingCount(before))
    /\ MissingCount(fs) = MissingCount(before) - Min(limit, MissingCount(before))
    /\ MissingCount(before) = 0 => calls = << >> /\ fs = before

\* a file that exists is neither removed nor rewritten
FilesKept == \A f \in FileNames : fs[f] # NoFile => fs'[f] = fs[f]

\* C24, amended: when no file of one asset (image or companion) is a file of
\* another, with a limit L >= 1 and every call succeeding in the end, each run
\* lowers the number of missing asset files by min(L, missing), an existing
\* file is never removed or rewritten, a run that starts with nothing missing
\* sends no request and creates nothing, and after finitely many runs every
\* asset file exists.
C24_ResumeAmended ==
    /\ []((pc = "done" /\ DisjointFiles) => RunLowersMissing)
    /\ [][(pc # "begin" /\ DisjointFiles) => FilesKept]_vars
    /\ <>(pc = "done" /\ MissingCount(fs) = 0)

\* the second run created the asset the first run left for it
C24_Witness ==
    /\ runs = 2 /\ pc = "done" /\ DisjointFiles /\ limit = 1
    /\ Len(assets) = 2 /\ MissingCount(before) = 1 /\ MissingCount(fs) = 0
    /\ created = 1 /\ before[assets[1].filename] # NoFile

\* C24 as stated: the same for every spec whose file names are distinct
C24_Original ==
    /\ []((pc = "done" /\ DistinctNames) => RunLowersMissing)
    /\ [][(pc # "begin" /\ DistinctNames) => FilesKept]_vars
    /\ <>(pc = "done" /\ MissingCount(fs) = 0)

---------------------------------------------------------------------------
(* Properties of the link fetcher. *)

\* the fetcher has ended
Terminated == crawl.status \in { "exit0", "exit1" }

\* no URL was requested twice
NoRefetch ==
    \A i, j \in 1..Len(crawl.gets) : i # j => crawl.gets[i] # crawl.gets[j]

\* no URL that is_url_allowed rejected was requested
RejectedNeverFetched ==
    \A i \in 1..Len(crawl.gets) : crawl.gets[i] \notin crawl.rejected

\* process_content entered at the maximum depth ends the program with status 1
DepthEnds ==
    (crawl.status = "run" /\ crawl.stack # << >>
        /\ Top.depth >= MAX_RECURSION_DEPTH) => crawl'.status = "exit1"

\* C25, as stated: the crawl always terminates; within one program run no URL
\* is fetched twice; a URL rejected by is_url_allowed is never fetched; and a
\* chain of nested fetched pages that reaches recursion depth 5 ends the whole
\* program with exit status 1.
C25_Original ==
    /\ <>Terminated
    /\ []NoRefetch
    /\ []RejectedNeverFetched
    /\ [][DepthEnds]_vars

=============================================================================
